---- MODULE Spec2Model ----
(***************************************************************************)
(* Model of athena_viewer: the state machine (StateHolder), the directory  *)
(* cache and navigation engine (FolderHolder), the controller              *)
(* (MessageHolder) and the per-mode key handlers (App), over an abstract   *)
(* file system.                                                            *)
(*                                                                         *)
(* Strings are sequences of one-character strings, so that the fuzzy       *)
(* filter, the sort by name and the path rendering are computed character  *)
(* by character as the code does.  A path is a sequence of names; the      *)
(* root directory "/" is the empty sequence.                               *)
(***************************************************************************)
EXTENDS Integers, Sequences, FiniteSets, TLC

\* ------------------------------------------------------------------ bounds
\* Capacity of the LRU cache in the model (the program's default is 100;
\* the model uses a small capacity so that eviction happens).
CacheCapacity == 2
\* const DEFAULT_CACHE_SIZE: the capacity the program builds the cache with.
DEFAULT_CACHE_SIZE == 100
\* Longest text typed into the input box.
MaxInput == 1
\* The raw highlight index stays within -1 .. MaxMove.
MaxMove == 1
\* Number of changes made to the disk from outside the program.
MaxFsOps == 1

\* ------------------------------------------------------------- characters
\* ASCII code of the characters the model uses (byte order of String's Ord).
Code(c) ==
    CASE c = "-" -> 45
      [] c = "." -> 46
      [] c = "/" -> 47
      [] c = "B" -> 66
      [] c = "a" -> 97
      [] c = "b" -> 98
      [] c = "c" -> 99
      [] c = "d" -> 100
      [] c = "f" -> 102
      [] c = "x" -> 120

\* char::to_ascii_lowercase
to_ascii_lowercase(c) == IF c = "B" THEN "b" ELSE c

\* Mutant of eq_ignore_ascii_case: the characters are compared as they are.
eq_exact(a, b) == a = b

\* char::eq_ignore_ascii_case
eq_ignore_ascii_case(a, b) == to_ascii_lowercase(a) = to_ascii_lowercase(b)

\* Ord for String: lexicographic on the bytes.
RECURSIVE StrLess(_, _)
StrLess(s, t) ==
    IF t = <<>> THEN FALSE
    ELSE IF s = <<>> THEN TRUE
    ELSE IF Code(Head(s)) < Code(Head(t)) THEN TRUE
    ELSE IF Code(Head(s)) > Code(Head(t)) THEN FALSE
    ELSE StrLess(Tail(s), Tail(t))

\* ------------------------------------------------------------ file system
DotDot == <<".", ".">>
Root == <<>>
NoPath == <<<<"?">>>>

PathA == << <<"a">> >>
PathAB == << <<"a">>, <<"B">> >>
PathABC == << <<"a">>, <<"B">>, <<"c">> >>
PathABD == << <<"a">>, <<"B">>, <<"d">> >>
PathAF == << <<"a">>, <<"f">> >>
PathAMinus == << <<"a">>, <<"-">> >>

\* Every path the disk of the model can hold, and what it is when it exists.
Nodes == {Root, PathA, PathAB, PathABC, PathABD, PathAF, PathAMinus}
KindOf(n) == IF n \in {PathABC, PathABD, PathAF, PathAMinus} THEN "file" ELSE "dir"

\* Path::parent (None for the root)
HasParent(p) == p # Root
Parent(p) == IF p = Root THEN Root ELSE SubSeq(p, 1, Len(p) - 1)
\* Path::file_name (None for the root and for a path ending in "..")
HasFileName(p) == p # Root /\ p[Len(p)] # DotDot
FileName(p) == p[Len(p)]

IsPrefix(p, q) == Len(p) <= Len(q) /\ SubSeq(q, 1, Len(p)) = p

\* fs::canonicalize: resolves ".." and fails when a component is missing.
RECURSIVE Resolve(_, _, _)
Resolve(d, comps, acc) ==
    IF comps = <<>> THEN acc
    ELSE IF d[acc] # "dir" THEN NoPath
    ELSE IF Head(comps) = DotDot THEN Resolve(d, Tail(comps), Parent(acc))
    ELSE IF Append(acc, Head(comps)) \in Nodes /\ d[Append(acc, Head(comps))] # "none"
         THEN Resolve(d, Tail(comps), Append(acc, Head(comps)))
    ELSE NoPath

canonicalize(d, p) == Resolve(d, p, Root)

\* Path::is_dir and Path::is_file
is_dir(d, p) == canonicalize(d, p) # NoPath /\ d[canonicalize(d, p)] = "dir"
is_file(d, p) == canonicalize(d, p) # NoPath /\ d[canonicalize(d, p)] = "file"

\* fs::read_dir succeeds on an existing, readable directory.
CanRead(d, u, p) == p \in Nodes /\ d[p] = "dir" /\ p \notin u
Children(d, p) == {n \in Nodes : n # Root /\ Parent(n) = p /\ d[n] # "none"}

\* Removal of a whole tree from outside.
RemoveTree(d, p) == [n \in Nodes |-> IF IsPrefix(p, n) THEN "none" ELSE d[n]]

\* The nodes of the disk at and below p.
Subtree(d, p) == {n \in Nodes : IsPrefix(p, n) /\ d[n] # "none"}

\* fs::remove_dir_all(p) walks the tree depth first, in the order read_dir
\* gives, and returns at the first error.  Blocked: the nodes it cannot
\* remove, a directory it cannot read or one above such a directory.
Blocked(d, u, p) ==
    {n \in Subtree(d, p) : \E m \in u : m \in Subtree(d, p) /\ IsPrefix(n, m)}

\* The unreadable directories the walk from p can fail at: every directory
\* between p and them can be read.
FailingAt(d, u, p) ==
    {m \in u : /\ m \in Subtree(d, p)
               /\ \A a \in Nodes : (IsPrefix(p, a) /\ IsPrefix(a, m) /\ a # m)
                                       => a \notin u}

\* The entries the walk may have removed in full before it failed at m: any
\* of the removable entries of the directories from p down to the parent
\* of m.
RemovedBefore(d, u, p, m) ==
    LET passed == UNION {Children(d, a) :
                            a \in {a \in Nodes : IsPrefix(p, a) /\ IsPrefix(a, m)
                                                     /\ a # m}}
        free == passed \ Blocked(d, u, p)
    IN  {UNION {Subtree(d, c) : c \in S} : S \in SUBSET free}

\* What fs::remove_file(p) or fs::remove_dir_all(p) may have removed when it
\* returns: nothing (the call fails at once), the file, the whole tree (all
\* but "/" itself, which cannot be unlinked), or what was removed before an
\* unreadable directory stopped the walk.
RemovalOutcomes(d, u, p) ==
    {{}} \cup
    (IF d[p] = "file" THEN {{p}}
     ELSE IF Blocked(d, u, p) = {} THEN {Subtree(d, p) \ {Root}}
     ELSE UNION {RemovedBefore(d, u, p, m) : m \in FailingAt(d, u, p)})

\* PathBuf::to_str of an absolute path: "/" followed by the names joined by "/".
RECURSIVE JoinNames(_)
JoinNames(p) ==
    IF p = <<>> THEN <<>>
    ELSE IF Len(p) = 1 THEN Head(p)
    ELSE Head(p) \o <<"/">> \o JoinNames(Tail(p))

PathStr(p) == <<"/">> \o JoinNames(p)

\* ------------------------------------------------------------- FileHolder
\* struct FileHolder { parent, file_name, is_file }
FileHolder(parent, file_name, isfile) ==
    [parent |-> parent, file_name |-> file_name, is_file |-> isfile]

\* TryFrom<PathBuf> for FileHolder: Path error when the path has no file name.
try_from_ok(p) == HasFileName(p)
try_from(d, p) == FileHolder(Parent(p), FileName(p), is_file(d, p))

\* MAX_FILE_SIZE, the largest file the viewer loads, in bytes.
MAX_FILE_SIZE == 10 * 1024 * 1024

\* The sizes of the files of the model: the files the program is started on
\* are exactly as large as the limit, a file written while it runs is one
\* byte larger.
InitFileSize == MAX_FILE_SIZE
CreatedFileSizes == {MAX_FILE_SIZE + 1}

\* Mutant of FileTextInfo::new: no limit on the size.
FileTextInfo_new_unlimited(size) == TRUE

\* FileTextInfo::new: Path error when the file is larger than MAX_FILE_SIZE.
FileTextInfo_new_ok(size) == ~(size > MAX_FILE_SIZE)

\* FileHolder::to_path
to_path(fh) == Append(fh.parent, fh.file_name)

\* FileHolder::to_path_canonicalize (NoPath stands for the Path error)
to_path_canonicalize(d, fh) == canonicalize(d, to_path(fh))

\* FileHolder::relative_to: Path error when ref_path is no prefix of parent.
relative_to_ok(fh, ref) == IsPrefix(ref, fh.parent)
relative_to(fh, ref) ==
    LET prefix == JoinNames(SubSeq(fh.parent, Len(ref) + 1, Len(fh.parent)))
    IN  IF prefix = <<>> THEN fh.file_name
        ELSE prefix \o <<"/">> \o fh.file_name

\* entries.sort_by_key(|f| f.file_name.clone()): the names of one directory
\* are distinct, so the stable sort yields the one sorted order.
RECURSIVE SortByName(_)
SortByName(S) ==
    IF S = {} THEN <<>>
    ELSE LET m == CHOOSE e \in S :
                    \A o \in S \ {e} : StrLess(e.file_name, o.file_name)
         IN  <<m>> \o SortByName(S \ {m})

\* fs::read_dir(&path)?.flatten(): the paths of the entries of the directory,
\* without the items that the directory iterator yields as Err (failed).
read_dir_flatten(d, path, failed) == Children(d, path) \ failed

\* The entries FileGroupHolder::new collects and sorts.
FileGroupHolder_child(d, path, adding_parent_shortcut, failed) ==
    SortByName(
        (IF adding_parent_shortcut /\ HasParent(path)
         THEN {FileHolder(path, DotDot, FALSE)} ELSE {})
        \cup {try_from(d, n) : n \in read_dir_flatten(d, path, failed)})

\* FileGroupHolder::new by its result: Parse error when the directory cannot
\* be read, Path error when FileHolder::try_from fails on an entry.
FileGroupHolder_read(d, u, path, adding_parent_shortcut, failed) ==
    IF ~CanRead(d, u, path) THEN [res |-> "Parse", child |-> <<>>]
    ELSE IF \E n \in read_dir_flatten(d, path, failed) : ~try_from_ok(n)
    THEN [res |-> "Path", child |-> <<>>]
    ELSE [res |-> "Ok",
          child |-> FileGroupHolder_child(d, path, adding_parent_shortcut, failed)]

\* FileGroupHolder::new on a directory whose iterator yields no Err item.
FileGroupHolder_ok(d, u, path) == CanRead(d, u, path)
FileGroupHolder_new(d, u, path, adding_parent_shortcut) ==
    FileGroupHolder_child(d, path, adding_parent_shortcut, {})

\* ---------------------------------------------------------------- filter
\* FolderHolder::should_select_helper: the loop over name.chars(), with
\* rest the characters of input from next_to_match on.
RECURSIVE MatchLoop(_, _)
MatchLoop(name, rest) ==
    IF name = <<>> THEN rest = <<>>
    ELSE IF rest = <<>> THEN TRUE
    ELSE IF eq_ignore_ascii_case(Head(name), Head(rest))
         THEN MatchLoop(Tail(name), Tail(rest))
    ELSE MatchLoop(Tail(name), rest)

should_select_helper(name, input) ==
    IF input = <<>> THEN TRUE ELSE MatchLoop(name, input)

\* ------------------------------------------------------------- LruCache
\* The cache is a sequence of [key, child], most recently used first.
CacheKeys(c) == [i \in 1..Len(c) |-> c[i].key]
CacheHas(c, k) == \E i \in 1..Len(c) : c[i].key = k
CacheIndex(c, k) == CHOOSE i \in 1..Len(c) : c[i].key = k
CacheWithout(c, k) == SelectSeq(c, LAMBDA e : e.key # k)

\* LruCache::peek (no change of recency)
lru_peek(c, k) == c[CacheIndex(c, k)].child

\* LruCache::get: a hit moves the key to the front.
lru_get(c, k) ==
    IF CacheHas(c, k) THEN <<c[CacheIndex(c, k)]>> \o CacheWithout(c, k) ELSE c

\* LruCache::put: replaces or inserts at the front; a new key in a full
\* cache evicts the least recently used one.
lru_put(c, k, v) ==
    IF CacheHas(c, k) THEN <<[key |-> k, child |-> v]>> \o CacheWithout(c, k)
    ELSE IF Len(c) >= CacheCapacity
         THEN <<[key |-> k, child |-> v]>> \o SubSeq(c, 1, CacheCapacity - 1)
    ELSE <<[key |-> k, child |-> v]>> \o c

\* LruCache::pop
lru_pop(c, k) == CacheWithout(c, k)

\* --------------------------------------------------------------- helpers
RECURSIVE SeqMap(_, _)
SeqMap(F(_), s) == IF s = <<>> THEN <<>> ELSE <<F(Head(s))>> \o SeqMap(F, Tail(s))

RECURSIVE Flatten(_)
Flatten(ss) == IF ss = <<>> THEN <<>> ELSE Head(ss) \o Flatten(Tail(ss))

RemoveAt(s, i) == SubSeq(s, 1, i - 1) \o SubSeq(s, i + 1, Len(s))

\* Option<String>
None == [some |-> FALSE, value |-> <<>>]
Some(v) == [some |-> TRUE, value |-> v]

\* An operation works on a record s of the whole program state (the fields
\* are the variables below, plus the disk); s.res is "Ok" until an error is
\* returned with `?`, and then names the AppError kind ("Panic": the thread
\* panicked; "DivideByZero": it panicked in a remainder by zero).
Fail(s, kind) == [s EXCEPT !.res = kind]

Panics == {"Panic", "DivideByZero"}

\* A call whose Result the caller drops: the error goes nowhere.
Discard(s) == [s EXCEPT !.res = IF @ \in Panics THEN @ ELSE "Ok"]

\* ----------------------------------------------------------- StateHolder
\* Mutant of save_previous_state: nothing is saved.
save_previous_state_skipped(s) == s

save_previous_state(s) ==
    [s EXCEPT !.prev_input_mode = s.input_mode, !.prev_view_mode = s.view_mode]

to_search(s) ==
    [save_previous_state(s) EXCEPT !.input_mode = "Normal", !.view_mode = "Search"]

\* Mutant of to_search_edit: the view mode is left as it is.
to_search_edit_keeps_view(s) ==
    [save_previous_state(s) EXCEPT !.input_mode = "Edit"]

to_search_edit(s) ==
    [save_previous_state(s) EXCEPT !.input_mode = "Edit", !.view_mode = "Search"]

\* Mutant of to_history_search: the pair in force is not saved.
to_history_search_unsaved(s) ==
    [s EXCEPT !.input_mode = "Edit", !.view_mode = "HistoryFolderView"]

to_history_search(s) ==
    [save_previous_state(s) EXCEPT !.input_mode = "Edit",
                                   !.view_mode = "HistoryFolderView"]

\* Mutant of to_file_view: the view changes, the input mode does not.
to_file_view_keeps_input_mode(s) ==
    [save_previous_state(s) EXCEPT !.view_mode = "FileView"]

to_file_view(s) ==
    [save_previous_state(s) EXCEPT !.input_mode = "Normal", !.view_mode = "FileView"]

\* Mutant of restore_previous_state: the two pairs are exchanged.
restore_previous_state_swaps(s) ==
    [s EXCEPT !.input_mode = s.prev_input_mode, !.view_mode = s.prev_view_mode,
              !.prev_input_mode = s.input_mode, !.prev_view_mode = s.view_mode]

restore_previous_state(s) ==
    [s EXCEPT !.input_mode = s.prev_input_mode, !.view_mode = s.prev_view_mode]

is_edit(s) == s.input_mode = "Edit"
is_history_search(s) == s.view_mode = "HistoryFolderView"
is_file_view(s) == s.view_mode = "FileView"

\* ---------------------------------------------------------- FolderHolder
\* FolderHolder::should_select
should_select(s, name) == should_select_helper(name, s.input)

\* The two branches of FolderHolder::update: the cache keys, most recently
\* used first, or current_holder, each kept when the filter selects it.
HistorySelection(s) ==
    SelectSeq(SeqMap(LAMBDA e : e.key, s.cache_holder),
              LAMBDA k : should_select(s, PathStr(k)))

BrowseSelection(s) ==
    SelectSeq(s.current_holder,
              LAMBDA fh : should_select(s, relative_to(fh, s.current_directory)))

\* Mutant of FolderHolder::update: no input clears the filter.
FolderHolder_update_clears_filter(s0, input) ==
    LET s == [s0 EXCEPT !.input = input.value]
    IN  IF is_history_search(s)
        THEN LET hits == HistorySelection(s)
             IN  IF \E i \in 1..Len(hits) : ~try_from_ok(hits[i])
                 THEN Fail(s, "Path")
                 ELSE [s EXCEPT !.selected_path_holder =
                                   SeqMap(LAMBDA k : try_from(s.disk, k), hits)]
        ELSE IF \E i \in 1..Len(s.current_holder) :
                    ~relative_to_ok(s.current_holder[i], s.current_directory)
             THEN Fail(s, "Path")
             ELSE [s EXCEPT !.selected_path_holder = BrowseSelection(s)]

\* FolderHolder::update
FolderHolder_update(s0, input) ==
    LET s == IF input.some THEN [s0 EXCEPT !.input = input.value] ELSE s0
    IN  IF is_history_search(s)
        THEN LET hits == HistorySelection(s)
             IN  IF \E i \in 1..Len(hits) : ~try_from_ok(hits[i])
                 THEN Fail(s, "Path")
                 ELSE [s EXCEPT !.selected_path_holder =
                                   SeqMap(LAMBDA k : try_from(s.disk, k), hits)]
        ELSE IF \E i \in 1..Len(s.current_holder) :
                    ~relative_to_ok(s.current_holder[i], s.current_directory)
             THEN Fail(s, "Path")
             ELSE [s EXCEPT !.selected_path_holder = BrowseSelection(s)]

\* Mutant of FolderHolder::put: the cache takes the snapshot without ever
\* evicting a key.
FolderHolder_put_unbounded(s, path) ==
    IF ~FileGroupHolder_ok(s.disk, s.unreadable, path) THEN Fail(s, "Parse")
    ELSE [s EXCEPT !.cache_holder =
              <<[key |-> path,
                 child |-> FileGroupHolder_new(s.disk, s.unreadable, path, TRUE)]>>
                  \o CacheWithout(@, path)]

\* FolderHolder::put
FolderHolder_put(s, path) ==
    IF ~FileGroupHolder_ok(s.disk, s.unreadable, path) THEN Fail(s, "Parse")
    ELSE [s EXCEPT !.cache_holder =
              lru_put(@, path, FileGroupHolder_new(s.disk, s.unreadable, path, TRUE))]

\* Mutant of submit_new_working_directory: expand_level is not reset.
submit_new_working_directory_keeps_level(s, path) ==
    LET s1 == IF CacheHas(s.cache_holder, path)
              THEN [s EXCEPT !.cache_holder = lru_get(@, path)]
              ELSE FolderHolder_put(s, path)
    IN  IF s1.res # "Ok" THEN s1
        ELSE LET s2 == [s1 EXCEPT !.current_directory = path]
             IN  IF ~CacheHas(s2.cache_holder, path) THEN Fail(s2, "Cache")
                 ELSE FolderHolder_update(
                          [s2 EXCEPT
                             !.cache_holder = lru_get(@, path),
                             !.current_holder = lru_peek(s2.cache_holder, path),
                             !.input = <<>>],
                          None)

\* Mutant of submit_new_working_directory: current_directory is assigned
\* before the snapshot is loaded.
submit_new_working_directory_moves_first(s, path) ==
    LET s0 == [s EXCEPT !.current_directory = path]
        s1 == IF CacheHas(s0.cache_holder, path)
              THEN [s0 EXCEPT !.cache_holder = lru_get(@, path)]
              ELSE FolderHolder_put(s0, path)
    IN  IF s1.res # "Ok" THEN s1
        ELSE IF ~CacheHas(s1.cache_holder, path) THEN Fail(s1, "Cache")
        ELSE LET s3 == [s1 EXCEPT
                          !.cache_holder = lru_get(@, path),
                          !.current_holder = lru_peek(s1.cache_holder, path),
                          !.input = <<>>]
                 s4 == FolderHolder_update(s3, None)
             IN  IF s4.res # "Ok" THEN s4
                 ELSE [s4 EXCEPT !.expand_level = 0]

\* Mutant of submit_new_working_directory: the directory is read again on
\* every entry, cached or not.
submit_new_working_directory_reloads(s, path) ==
    LET s1 == FolderHolder_put(s, path)
    IN  IF s1.res # "Ok" THEN s1
        ELSE LET s2 == [s1 EXCEPT !.current_directory = path]
             IN  IF ~CacheHas(s2.cache_holder, path) THEN Fail(s2, "Cache")
                 ELSE LET s3 == [s2 EXCEPT
                                   !.cache_holder = lru_get(@, path),
                                   !.current_holder = lru_peek(s2.cache_holder, path),
                                   !.input = <<>>]
                          s4 == FolderHolder_update(s3, None)
                      IN  IF s4.res # "Ok" THEN s4
                          ELSE [s4 EXCEPT !.expand_level = 0]

\* FolderHolder::submit_new_working_directory
submit_new_working_directory(s, path) ==
    LET s1 == IF CacheHas(s.cache_holder, path)
              THEN [s EXCEPT !.cache_holder = lru_get(@, path)]
              ELSE FolderHolder_put(s, path)
    IN  IF s1.res # "Ok" THEN s1
        ELSE LET s2 == [s1 EXCEPT !.current_directory = path]
             IN  IF ~CacheHas(s2.cache_holder, path) THEN Fail(s2, "Cache")
                 ELSE LET s3 == [s2 EXCEPT
                                   !.cache_holder = lru_get(@, path),
                                   !.current_holder = lru_peek(s2.cache_holder, path),
                                   !.input = <<>>]
                          s4 == FolderHolder_update(s3, None)
                      IN  IF s4.res # "Ok" THEN s4
                          ELSE [s4 EXCEPT !.expand_level = 0]

\* Mutant of FolderHolder::refresh: the listing is reloaded, the cache keeps
\* its old snapshot.
refresh_keeps_snapshot(s) ==
    IF ~FileGroupHolder_ok(s.disk, s.unreadable, s.current_directory)
    THEN Fail(s, "Parse")
    ELSE FolderHolder_update(
             [s EXCEPT !.current_holder =
                           FileGroupHolder_new(s.disk, s.unreadable,
                                               s.current_directory, TRUE)],
             None)

\* Mutant of FolderHolder::refresh: the result of the put is not looked at.
refresh_unreported(s) ==
    IF ~FileGroupHolder_ok(s.disk, s.unreadable, s.current_directory)
    THEN Fail(s, "Parse")
    ELSE LET holder == FileGroupHolder_new(s.disk, s.unreadable,
                                           s.current_directory, TRUE)
             s1 == FolderHolder_update([s EXCEPT !.current_holder = holder], None)
         IN  IF s1.res # "Ok" THEN s1
             ELSE [s1 EXCEPT !.cache_holder = lru_put(@, s.current_directory, holder)]

\* FolderHolder::refresh
refresh(s) ==
    IF ~FileGroupHolder_ok(s.disk, s.unreadable, s.current_directory)
    THEN Fail(s, "Parse")
    ELSE LET holder == FileGroupHolder_new(s.disk, s.unreadable,
                                           s.current_directory, TRUE)
             s1 == FolderHolder_update([s EXCEPT !.current_holder = holder], None)
         IN  IF s1.res # "Ok" THEN s1
             ELSE LET s2 == [s1 EXCEPT !.cache_holder =
                                          lru_put(@, s.current_directory, holder)]
                  IN  IF CacheHas(s1.cache_holder, s.current_directory) THEN s2
                      ELSE Fail(s2, "Cache")

\* FolderHolder::submit (NoPath stands for the Path error); index from 1.
FolderHolder_submit(s, index) ==
    to_path_canonicalize(s.disk, s.selected_path_holder[index])

\* FolderHolder::drop_invalid_folder; index from 1.
drop_invalid_folder(s, index) ==
    IF ~is_history_search(s) THEN Fail(s, "State")
    ELSE LET removed == s.selected_path_holder[index]
             s1 == [s EXCEPT !.selected_path_holder = RemoveAt(@, index)]
         IN  IF ~CacheHas(s.cache_holder, to_path(removed)) THEN Fail(s1, "Cache")
             ELSE [s1 EXCEPT !.cache_holder = lru_pop(@, to_path(removed))]

\* FolderHolder::peek fails with a Cache error when the key is missing.
peek_ok(s) == CacheHas(s.cache_holder, s.current_directory)

\* FolderHolder::expand: value_path_group, the canonical paths of the
\* entries after element 0 (a stale entry is skipped).
value_path_group(s) ==
    SelectSeq(SeqMap(LAMBDA fh : to_path_canonicalize(s.disk, fh),
                     Tail(s.current_holder)),
              LAMBDA q : q # NoPath)

\* What one path of value_path_group contributes to the result.
ExpandOne(s, q) ==
    IF s.disk[q] = "dir" THEN FileGroupHolder_new(s.disk, s.unreadable, q, FALSE)
    ELSE <<try_from(s.disk, q)>>

\* Mutant of FolderHolder::expand: the first item is stored before the
\* subdirectories are read, so a failed read leaves only it.
expand_stores_first(s) ==
    IF s.current_holder = <<>> THEN Fail(s, "Panic")
    ELSE LET group == value_path_group(s)
         IN  IF \E i \in 1..Len(group) :
                    /\ s.disk[group[i]] = "dir"
                    /\ ~FileGroupHolder_ok(s.disk, s.unreadable, group[i])
             THEN Fail([s EXCEPT !.current_holder = <<s.current_holder[1]>>], "Parse")
             ELSE LET result == Flatten(SeqMap(LAMBDA q : ExpandOne(s, q), group))
                      s1 == FolderHolder_update(
                                [s EXCEPT !.current_holder =
                                              <<s.current_holder[1]>> \o result],
                                None)
                  IN  IF s1.res # "Ok" THEN s1
                      ELSE [s1 EXCEPT !.expand_level = @ + 1]

\* FolderHolder::expand
expand(s) ==
    IF s.current_holder = <<>> THEN Fail(s, "Panic")
    ELSE LET group == value_path_group(s)
         IN  IF \E i \in 1..Len(group) :
                    /\ s.disk[group[i]] = "dir"
                    /\ ~FileGroupHolder_ok(s.disk, s.unreadable, group[i])
             THEN Fail(s, "Parse")
             ELSE LET result == Flatten(SeqMap(LAMBDA q : ExpandOne(s, q), group))
                      s1 == FolderHolder_update(
                                [s EXCEPT !.current_holder =
                                              <<s.current_holder[1]>> \o result],
                                None)
                  IN  IF s1.res # "Ok" THEN s1
                      ELSE [s1 EXCEPT !.expand_level = @ + 1]

\* result.matches('/').count()
CountSlash(str) == Len(SelectSeq(str, LAMBDA c : c = "/"))

\* Mutant of the key of FolderHolder::collapse: the item itself at every
\* depth.
CollapseKey_keeps_item(s, item) == to_path_canonicalize(s.disk, item)

\* The key FolderHolder::collapse computes for one item (NoPath: the
\* canonicalization failed).
CollapseKey(s, item) ==
    IF CountSlash(relative_to(item, s.current_directory)) > s.expand_level
    THEN canonicalize(s.disk, item.parent)
    ELSE to_path_canonicalize(s.disk, item)

\* The loop of FolderHolder::collapse over the items after element 0:
\* seen is selected_path_ref, out is new_current_holder after element 0.
RECURSIVE CollapseLoop(_, _, _, _)
CollapseLoop(s, items, seen, out) ==
    IF items = <<>> THEN [res |-> "Ok", out |-> out]
    ELSE LET item == Head(items)
         IN  IF ~relative_to_ok(item, s.current_directory)
             THEN [res |-> "Path", out |-> out]
             ELSE LET key == CollapseKey(s, item)
                      deep == CountSlash(relative_to(item, s.current_directory))
                                  > s.expand_level
                  IN  IF key = NoPath
                      THEN [res |-> IF deep THEN "Parse" ELSE "Path", out |-> out]
                      ELSE IF key \in seen
                      THEN CollapseLoop(s, Tail(items), seen, out)
                      ELSE IF ~try_from_ok(key)
                      THEN [res |-> "Path", out |-> out]
                      ELSE CollapseLoop(s, Tail(items), seen \cup {key},
                                        Append(out, try_from(s.disk, key)))

\* Mutant of FolderHolder::collapse: the listing is folded, expand_level is
\* left as it is.
collapse_keeps_level(s) ==
    IF s.expand_level = 0 THEN s
    ELSE IF s.current_holder = <<>> THEN Fail(s, "Panic")
    ELSE LET s1 == [s EXCEPT !.expand_level = @ - 1]
             r == CollapseLoop(s1, Tail(s1.current_holder), {}, <<>>)
         IN  IF r.res # "Ok" THEN Fail(s, r.res)
             ELSE FolderHolder_update(
                      [s EXCEPT !.current_holder =
                                    <<s.current_holder[1]>> \o r.out],
                      None)

\* FolderHolder::collapse
collapse(s) ==
    IF s.expand_level = 0 THEN s
    ELSE LET s1 == [s EXCEPT !.expand_level = @ - 1]
         IN  IF s1.current_holder = <<>> THEN Fail(s1, "Panic")
             ELSE LET r == CollapseLoop(s1, Tail(s1.current_holder), {}, <<>>)
                  IN  IF r.res # "Ok" THEN Fail(s1, r.res)
                      ELSE FolderHolder_update(
                               [s1 EXCEPT !.current_holder =
                                              <<s1.current_holder[1]>> \o r.out],
                               None)

\* -------------------------------------------------------- MessageHolder
\* The range of i32.
I32_MAX == 2147483647
I32_MIN == (0 - 2147483647) - 1

\* MessageHolder::reset_index, move_up, move_down (saturating_sub(1) and
\* saturating_add(1) on an i32)
reset_index(s) == [s EXCEPT !.raw_highlight_index = 0]
move_up(s) == [s EXCEPT !.raw_highlight_index = IF @ = I32_MIN THEN @ ELSE @ - 1]
move_down(s) == [s EXCEPT !.raw_highlight_index = IF @ = I32_MAX THEN @ ELSE @ + 1]

\* i32::rem_euclid, from the truncating remainder of the machine (the sign
\* of the dividend, computed without negating i32::MIN).
TruncRem(a, b) ==
    IF a >= 0 THEN a % b
    ELSE IF a % b = 0 THEN 0 ELSE (a % b) - b

\* Mutant of rem_euclid: the truncating remainder.
rem_truncating(a, b) == TruncRem(a, b)

rem_euclid(a, b) == IF TruncRem(a, b) < 0 THEN TruncRem(a, b) + b ELSE TruncRem(a, b)

\* What the wrap yields when i32::rem_euclid panics on a divisor of 0.
NoIndex == 0 - 1

\* MessageHolder::get_highlight_index_helper
get_highlight_index_helper(raw_highlight_index, group_len) ==
    IF group_len = 0 THEN NoIndex
    ELSE rem_euclid(raw_highlight_index, group_len)

\* Mutant of Vec::is_empty: the callers never return early.
is_empty_never(path_holder) == FALSE

\* Vec::is_empty, the check before each call of get_highlight_index
is_empty(path_holder) == path_holder = <<>>

\* MessageHolder::get_highlight_index
get_highlight_index(s, group_len) ==
    get_highlight_index_helper(s.raw_highlight_index, group_len)

\* MessageHolder::update
MessageHolder_update(s, input) ==
    LET s1 == FolderHolder_update(s, input)
    IN  IF s1.res # "Ok" THEN s1 ELSE reset_index(s1)

\* MessageHolder::reset_file_view
reset_file_view(s) == [s EXCEPT !.file_opened = NoPath, !.file_text_info = "None"]

\* MessageHolder::reset
reset(s) ==
    LET s1 == FolderHolder_update([s EXCEPT !.input = <<>>], None)
    IN  IF s1.res # "Ok" THEN s1 ELSE reset_index(reset_file_view(s1))

\* MessageHolder::refresh_current_folder_cache
refresh_current_folder_cache(s) == refresh(s)

\* Mutant of MessageHolder::submit: a directory chosen in history mode is
\* entered without leaving history mode.
submit_stays_in_history(s) ==
    IF is_empty(s.selected_path_holder) THEN s
    ELSE IF get_highlight_index(s, Len(s.selected_path_holder)) = NoIndex
    THEN Fail(s, "DivideByZero")
    ELSE LET highlight_index ==
                 get_highlight_index(s, Len(s.selected_path_holder)) + 1
             new_entrypoint == FolderHolder_submit(s, highlight_index)
         IN  IF new_entrypoint # NoPath
             THEN IF s.disk[new_entrypoint] = "dir"
                  THEN submit_new_working_directory(s, new_entrypoint)
                  ELSE IF ~FileTextInfo_new_ok(s.file_size[new_entrypoint])
                  THEN Fail(s, "Path")
                  ELSE to_file_view([s EXCEPT !.file_text_info = "Some",
                                              !.file_opened = new_entrypoint])
             ELSE IF is_history_search(s)
                  THEN drop_invalid_folder(s, highlight_index)
                  ELSE refresh_current_folder_cache(s)

\* MessageHolder::submit
submit(s) ==
    IF is_empty(s.selected_path_holder) THEN s
    ELSE IF get_highlight_index(s, Len(s.selected_path_holder)) = NoIndex
    THEN Fail(s, "DivideByZero")
    ELSE LET highlight_index ==
                 get_highlight_index(s, Len(s.selected_path_holder)) + 1
             new_entrypoint == FolderHolder_submit(s, highlight_index)
         IN  IF new_entrypoint # NoPath
             THEN IF s.disk[new_entrypoint] = "dir"
                  THEN submit_new_working_directory(
                           IF is_history_search(s) THEN to_search(s) ELSE s,
                           new_entrypoint)
                  ELSE IF ~FileTextInfo_new_ok(s.file_size[new_entrypoint])
                  THEN Fail(s, "Path")
                  ELSE to_file_view([s EXCEPT !.file_text_info = "Some",
                                              !.file_opened = new_entrypoint])
             ELSE IF is_history_search(s)
                  THEN drop_invalid_folder(s, highlight_index)
                  ELSE refresh_current_folder_cache(s)

\* MessageHolder::to_parent
to_parent(s) ==
    LET s1 == MessageHolder_update([s EXCEPT !.raw_highlight_index = 0], Some(<<>>))
    IN  IF s1.res # "Ok" THEN s1 ELSE submit(s1)

\* MessageHolder::delete; gone: the nodes that fs::remove_dir_all or
\* fs::remove_file has removed (its error is ignored).
delete(s, gone) ==
    IF is_empty(s.selected_path_holder) THEN s
    ELSE IF get_highlight_index(s, Len(s.selected_path_holder)) = NoIndex
    THEN Fail(s, "DivideByZero")
    ELSE LET highlight_index ==
                 get_highlight_index(s, Len(s.selected_path_holder)) + 1
             path == FolderHolder_submit(s, highlight_index)
         IN  IF path = NoPath THEN s
             ELSE refresh([s EXCEPT
                              !.disk = [n \in Nodes |-> IF n \in gone THEN "none"
                                                        ELSE @[n]],
                              !.unreadable = @ \ gone])

\* What the removal called by delete in s may remove.
DeleteOutcomes(s) ==
    IF s.selected_path_holder = <<>> THEN {{}}
    ELSE LET path == FolderHolder_submit(
                         s, get_highlight_index(s, Len(s.selected_path_holder)) + 1)
         IN  IF path = NoPath THEN {{}}
             ELSE RemovalOutcomes(s.disk, s.unreadable, path)

\* MessageHolder::draw returns an error (which App::run turns into a panic)
\* when the folder view cannot find the current directory in the cache or
\* the file view has no text.
get_text_ok(s, entry) ==
    IF is_history_search(s) THEN to_path_canonicalize(s.disk, entry) # NoPath
    ELSE relative_to_ok(entry, s.current_directory)

drawn_rows(s) == SelectSeq(s.selected_path_holder, LAMBDA e : get_text_ok(s, e))

\* MessageHolder::draw_folder_view, by its outcome
draw_folder_view(s) ==
    IF is_empty(drawn_rows(s)) THEN "Ok"
    ELSE IF get_highlight_index(s, Len(drawn_rows(s))) = NoIndex THEN "DivideByZero"
    ELSE IF is_history_search(s) \/ peek_ok(s) THEN "Ok"
    ELSE "Cache"

draw_ok(s) ==
    IF s.file_opened = NoPath
    THEN draw_folder_view(s) = "Ok"
    ELSE s.file_text_info = "Some"

\* ------------------------------------------------------------------ state
VARIABLES
    disk,                  \* the file system: Nodes -> "none" | "dir" | "file"
    unreadable,            \* directories that read_dir cannot read
    file_size,             \* the length in bytes of each file of the disk
    fs_ops,                \* changes made to the disk from outside so far
    input_mode,            \* StateHolder
    view_mode,
    prev_input_mode,
    prev_view_mode,
    cache_holder,          \* FolderHolder
    input,
    selected_path_holder,
    current_directory,
    current_holder,
    expand_level,
    raw_highlight_index,   \* MessageHolder
    file_opened,
    file_text_info,
    app_input,             \* App: the text of the input box
    exit,
    log_message,
    panicked,              \* the process died of a panic
    probe                  \* a function called on its own: its arguments, its result

vars == <<disk, unreadable, file_size, fs_ops, input_mode, view_mode, prev_input_mode,
          prev_view_mode, cache_holder, input, selected_path_holder,
          current_directory, current_holder, expand_level, raw_highlight_index,
          file_opened, file_text_info, app_input, exit, log_message, panicked,
          probe>>

\* The state as the record the operations work on.
St ==
    [disk |-> disk, unreadable |-> unreadable, file_size |-> file_size,
     input_mode |-> input_mode, view_mode |-> view_mode,
     prev_input_mode |-> prev_input_mode, prev_view_mode |-> prev_view_mode,
     cache_holder |-> cache_holder, input |-> input,
     selected_path_holder |-> selected_path_holder,
     current_directory |-> current_directory, current_holder |-> current_holder,
     expand_level |-> expand_level, raw_highlight_index |-> raw_highlight_index,
     file_opened |-> file_opened, file_text_info |-> file_text_info,
     res |-> "Ok"]

\* The disk the program is started on, in the directory /a.
InitDisk ==
    [n \in Nodes |-> IF n \in {PathAMinus, PathABC, PathABD} THEN "none" ELSE KindOf(n)]

\* The same disk with a nested structure: /a/B holds the files c and d.
NestedDisk ==
    [n \in Nodes |-> IF n = PathAMinus THEN "none" ELSE KindOf(n)]

\* No function is called on its own.
NoProbe == [fn |-> "none"]

\* StateHolder::default
StateHolderDefault ==
    /\ input_mode = "Edit"
    /\ view_mode = "Search"
    /\ prev_input_mode = "Edit"
    /\ prev_view_mode = "Search"

\* MessageHolder::new, FolderHolder::new and the fields of App::new
EngineInitOn(d) ==
    /\ disk = d
    /\ unreadable = {}
    /\ file_size = [n \in Nodes |-> IF d[n] = "file" THEN InitFileSize ELSE 0]
    /\ fs_ops = 0
    /\ cache_holder = lru_put(<<>>, PathA,
                              FileGroupHolder_new(d, {}, PathA, TRUE))
    /\ input = <<>>
    /\ selected_path_holder = FileGroupHolder_new(d, {}, PathA, TRUE)
    /\ current_directory = PathA
    /\ current_holder = FileGroupHolder_new(d, {}, PathA, TRUE)
    /\ expand_level = 0
    /\ raw_highlight_index = 0
    /\ file_opened = NoPath
    /\ file_text_info = "None"
    /\ app_input = <<>>
    /\ exit = FALSE
    /\ log_message = "none"
    /\ panicked = FALSE

EngineInit == EngineInitOn(InitDisk)

\* App::new
AppInit == StateHolderDefault /\ EngineInit

Init == AppInit /\ probe = NoProbe

\* App::run: one turn of the loop.  The handler of the key has produced s;
\* an error goes to log_message (handle_error), and the frame drawn before
\* the next key is read panics when MessageHolder::draw fails.
Handled(s, new_app_input) ==
    /\ disk' = s.disk
    /\ unreadable' = s.unreadable
    /\ file_size' = [n \in Nodes |-> IF s.disk[n] = "file" THEN file_size[n] ELSE 0]
    /\ input_mode' = s.input_mode
    /\ view_mode' = s.view_mode
    /\ prev_input_mode' = s.prev_input_mode
    /\ prev_view_mode' = s.prev_view_mode
    /\ cache_holder' = s.cache_holder
    /\ input' = s.input
    /\ selected_path_holder' = s.selected_path_holder
    /\ current_directory' = s.current_directory
    /\ current_holder' = s.current_holder
    /\ expand_level' = s.expand_level
    /\ raw_highlight_index' = s.raw_highlight_index
    /\ file_opened' = s.file_opened
    /\ file_text_info' = s.file_text_info
    /\ app_input' = new_app_input
    /\ log_message' = IF s.res \in {"Ok"} \cup Panics THEN log_message ELSE s.res
    /\ panicked' = (s.res \in Panics \/ ~draw_ok(s))
    /\ fs_ops' = IF s.disk = disk THEN fs_ops ELSE fs_ops + 1
    /\ exit' = exit
    /\ probe' = probe

Running == ~exit /\ ~panicked
NormalSearch == Running /\ input_mode = "Normal" /\ view_mode = "Search"
EditSearch == Running /\ input_mode = "Edit" /\ view_mode = "Search"
EditHistory == Running /\ input_mode = "Edit" /\ view_mode = "HistoryFolderView"
NormalFileView == Running /\ input_mode = "Normal" /\ view_mode = "FileView"

\* Which branch MessageHolder::submit takes in s.
SubmitOp(s) ==
    IF s.selected_path_holder = <<>> THEN "nothing"
    ELSE LET e == FolderHolder_submit(
                      s, get_highlight_index(s, Len(s.selected_path_holder)) + 1)
         IN  IF e = NoPath
             THEN IF is_history_search(s) THEN "drop" ELSE "refresh"
             ELSE IF s.disk[e] = "dir" THEN "enter" ELSE "open"

\* The characters the user types into the input box: 'b', or the ones of
\* the keyboard the run was started with.
TypedChars == IF probe.fn = "keyboard" THEN probe.chars ELSE {"b"}

\* tui_input: the text after a key the handlers pass on to the input box
\* (a character appended, Backspace, or a key that leaves the text alone).
NextInputs(text) ==
    {text}
    \cup (IF text # <<>> THEN {SubSeq(text, 1, Len(text) - 1)} ELSE {})
    \cup (IF Len(text) < MaxInput THEN {Append(text, c) : c \in TypedChars} ELSE {})

\* Deepest flattening the model follows.
MaxExpand == 1

\* ------------------------------------------- handle_normal_search_event
\* 'u'
KeyRefresh ==
    /\ NormalSearch
    /\ Handled(refresh_current_folder_cache(St), app_input)

\* 'h' (the handler drops the result of reset)
KeyHistory ==
    /\ NormalSearch
    /\ Handled(Discard(reset(to_history_search(St))), app_input)

\* 'e'
KeyExpand ==
    /\ NormalSearch
    /\ expand_level < MaxExpand
    /\ Handled(expand(St), app_input)

\* 'c'
KeyCollapse ==
    /\ NormalSearch
    /\ Handled(collapse(St), app_input)

\* Tab
KeyTabNormal ==
    /\ NormalSearch
    /\ Handled(to_search_edit(St), app_input)

\* Ctrl+K, Ctrl+Up (the handler drops the result of to_parent)
KeyToParent ==
    /\ NormalSearch
    /\ Handled(Discard(to_parent(St)), app_input)

\* Enter: the handler drops the result of submit and resets the input box
\* unless the file view is on.
KeyEnterNormal ==
    /\ NormalSearch
    /\ LET s == submit(St)
       IN  Handled(Discard(s),
                   IF ~is_file_view(s) THEN <<>> ELSE app_input)

\* Ctrl+D; gone: what the removal takes from the disk.  The handler drops
\* the result of delete.
KeyDelete ==
    /\ NormalSearch
    /\ \E gone \in DeleteOutcomes(St) :
           /\ gone # {} => fs_ops < MaxFsOps
           /\ Handled(Discard(delete(St, gone)), app_input)

\* 'k', Up and 'j', Down in the two search modes and the history mode
KeyUp ==
    /\ NormalSearch \/ EditSearch \/ EditHistory
    /\ raw_highlight_index >= 0
    /\ Handled(move_up(St), app_input)

KeyDown ==
    /\ NormalSearch \/ EditSearch \/ EditHistory
    /\ raw_highlight_index < MaxMove
    /\ Handled(move_down(St), app_input)

\* --------------------------------------------- handle_edit_search_event
\* Tab
KeyTabEdit ==
    /\ EditSearch
    /\ Handled(to_search(St), app_input)

\* Enter
KeyEnterEdit ==
    /\ EditSearch
    /\ LET s == submit(St)
       IN  Handled(s,
                   IF s.res = "Ok" THEN <<>> ELSE app_input)

\* Ctrl+C
KeyCtrlC ==
    /\ EditSearch
    /\ Handled(Discard(MessageHolder_update(St, None)), <<>>)

\* any other key: the input box handles it and the filter is updated
KeyTypeEdit ==
    /\ EditSearch
    /\ \E text \in NextInputs(app_input) :
           Handled(Discard(MessageHolder_update(St, Some(text))), text)

\* --------------------------------- handle_edit_history_folder_view_event
\* Tab
KeyTabHistory ==
    /\ EditHistory
    /\ Handled(to_search(St), app_input)

\* MessageHolder::submit_for_history: the submit of the highlighted history
\* entry (enter it when it is still a directory, drop it otherwise).
submit_for_history(s) == submit(s)

\* Enter: the handler drops the result of the submit and always ends in the
\* search mode.
KeyEnterHistory ==
    /\ EditHistory
    /\ LET s1 == submit_for_history(St)
           s2 == IF s1.file_opened # NoPath THEN to_file_view(s1) ELSE s1
       IN  Handled(Discard(to_search(s2)), <<>>)

\* any other key: the index is set to 0, then the filter is updated
KeyTypeHistory ==
    /\ EditHistory
    /\ \E text \in NextInputs(app_input) :
           Handled(Discard(MessageHolder_update(reset_index(St), Some(text))), text)

\* ------------------------------------------ handle_normal_file_view_event
\* 'q' (the handler drops the result of reset)
KeyQuit ==
    /\ NormalFileView
    /\ Handled(Discard(restore_previous_state(reset(St))), app_input)

\* The key event that handle_event read is noted in probe when the run of
\* the main loop is observed.
KeyRead(key) ==
    probe' = IF probe.fn = "handle_event" THEN [probe EXCEPT !.key = key] ELSE probe

\* 'c', 'z' (no modifier asked for)
KeyFileViewExit ==
    /\ NormalFileView
    /\ exit' = TRUE
    /\ \E key \in {"c", "z"} : KeyRead(key)
    /\ UNCHANGED <<disk, unreadable, file_size, fs_ops, input_mode, view_mode,
                   prev_input_mode, prev_view_mode, cache_holder, input,
                   selected_path_holder, current_directory, current_holder,
                   expand_level, raw_highlight_index, file_opened, file_text_info,
                   app_input, log_message, panicked>>

\* ------------------------------------------------------ App::handle_event
\* Ctrl+Z in any mode
KeyCtrlZ ==
    /\ Running
    /\ exit' = TRUE
    /\ KeyRead("Ctrl+Z")
    /\ UNCHANGED <<disk, unreadable, file_size, fs_ops, input_mode, view_mode,
                   prev_input_mode, prev_view_mode, cache_holder, input,
                   selected_path_holder, current_directory, current_holder,
                   expand_level, raw_highlight_index, file_opened, file_text_info,
                   app_input, log_message, panicked>>

\* event::poll or event::read fails: handle_event returns AppError::Terminal
\* before any key is handled, and handle_error writes the error to
\* log_message and sets exit.
TerminalError ==
    /\ Running
    /\ exit' = TRUE
    /\ log_message' = "Terminal"
    /\ UNCHANGED <<disk, unreadable, file_size, fs_ops, input_mode, view_mode,
                   prev_input_mode, prev_view_mode, cache_holder, input,
                   selected_path_holder, current_directory, current_holder,
                   expand_level, raw_highlight_index, file_opened, file_text_info,
                   app_input, panicked, probe>>

\* ------------------------------------------------- the world outside
External(new_disk, new_unreadable, new_file_size) ==
    /\ Running
    /\ fs_ops < MaxFsOps
    /\ fs_ops' = fs_ops + 1
    /\ disk' = new_disk
    /\ unreadable' = new_unreadable
    /\ file_size' = new_file_size
    /\ UNCHANGED <<input_mode, view_mode, prev_input_mode, prev_view_mode,
                   cache_holder, input, selected_path_holder, current_directory,
                   current_holder, expand_level, raw_highlight_index, file_opened,
                   file_text_info, app_input, exit, log_message, panicked,
                   probe>>

\* What the world outside removes, what it creates and whose permissions it
\* changes.
Removable == {PathAB}
Creatable == {PathAMinus}
Changeable == {PathAB}

\* Something else removes a file or a directory tree.
ExtRemove ==
    \E n \in Removable :
        /\ disk[n] # "none"
        /\ External(RemoveTree(disk, n), {m \in unreadable : ~IsPrefix(n, m)},
                    [m \in Nodes |-> IF IsPrefix(n, m) THEN 0 ELSE file_size[m]])

\* Something else creates a file or a directory.
ExtCreate ==
    \E n \in Creatable :
        /\ disk[n] = "none"
        /\ disk[Parent(n)] = "dir"
        /\ \E size \in (IF KindOf(n) = "file" THEN CreatedFileSizes ELSE {0}) :
               External([disk EXCEPT ![n] = KindOf(n)], unreadable,
                        [file_size EXCEPT ![n] = size])

\* Something else takes away or gives back the permission to read a directory.
ExtChmod ==
    \E n \in Changeable :
        /\ disk[n] = "dir"
        /\ External(disk,
                    IF n \in unreadable THEN unreadable \ {n}
                    ELSE unreadable \cup {n},
                    file_size)

Next ==
    \/ KeyRefresh \/ KeyHistory \/ KeyExpand \/ KeyCollapse \/ KeyTabNormal
    \/ KeyToParent \/ KeyEnterNormal \/ KeyDelete \/ KeyUp \/ KeyDown
    \/ KeyTabEdit \/ KeyEnterEdit \/ KeyCtrlC \/ KeyTypeEdit
    \/ KeyTabHistory \/ KeyEnterHistory \/ KeyTypeHistory
    \/ KeyQuit \/ KeyFileViewExit
    \/ KeyCtrlZ \/ TerminalError
    \/ ExtRemove \/ ExtCreate \/ ExtChmod

Spec == Init /\ [][Next]_vars

\* The same program started on the nested structure.
InitNested == StateHolderDefault /\ EngineInitOn(NestedDisk) /\ probe = NoProbe

SpecNested == InitNested /\ [][Next]_vars

\* The same program in front of a user who types 'f'.
InitTypingF == AppInit /\ probe = [fn |-> "keyboard", chars |-> {"f"}]

SpecTypingF == InitTypingF /\ [][Next]_vars

\* App::run is observed: probe holds the key that ended the loop, if any.
InitRun == AppInit /\ probe = [fn |-> "handle_event", key |-> "none"]

SpecRun == InitRun /\ [][Next]_vars

\* ------------------------------------------- should_select_helper alone
\* Longest name and longest filter the helper is called with.
MaxLen == 3

\* The characters of the names and of the filters.
Alphabet == {"a", "b", "B", "c"}

RECURSIVE StringsOfLen(_)
StringsOfLen(n) ==
    IF n = 0 THEN {<<>>}
    ELSE {Append(s, c) : s \in StringsOfLen(n - 1), c \in Alphabet}

Strings == UNION {StringsOfLen(n) : n \in 0..MaxLen}

\* FolderHolder::should_select_helper(name, input) is about to be called.
SelectInit ==
    /\ AppInit
    /\ probe \in {[fn |-> "should_select_helper", name |-> n, input |-> f,
                   out |-> <<>>] : n \in Strings, f \in Strings}

\* The call returns.
SelectCall ==
    /\ probe.fn = "should_select_helper"
    /\ probe.out = <<>>
    /\ probe' = [probe EXCEPT
                    !.out = <<should_select_helper(probe.name, probe.input)>>]
    /\ UNCHANGED <<disk, unreadable, file_size, fs_ops, input_mode, view_mode,
                   prev_input_mode, prev_view_mode, cache_holder, input,
                   selected_path_holder, current_directory, current_holder,
                   expand_level, raw_highlight_index, file_opened, file_text_info,
                   app_input, exit, log_message, panicked>>

SpecSelect == SelectInit /\ [][SelectCall]_vars

\* ------------------------------------- get_highlight_index_helper alone
\* The raw indices run from -MaxRaw to MaxRaw and over the ends of the i32
\* range, the lengths from 1 to MaxGroupLen and up to i32::MAX.
MaxRaw == 6
MaxGroupLen == 10

RawIndices == (0 - MaxRaw)..MaxRaw \cup {I32_MIN, I32_MIN + 1, I32_MAX - 1, I32_MAX}
GroupLens == 1..MaxGroupLen \cup {I32_MAX - 1, I32_MAX}

\* MessageHolder::get_highlight_index_helper(raw, len) is about to be called.
IndexInit ==
    /\ AppInit
    /\ probe \in {[fn |-> "get_highlight_index_helper", raw |-> r, len |-> n,
                   out |-> <<>>] : r \in RawIndices, n \in GroupLens}

\* The call returns.
IndexCall ==
    /\ probe.fn = "get_highlight_index_helper"
    /\ probe.out = <<>>
    /\ probe' = [probe EXCEPT
                    !.out = <<get_highlight_index_helper(probe.raw, probe.len)>>]
    /\ UNCHANGED <<disk, unreadable, file_size, fs_ops, input_mode, view_mode,
                   prev_input_mode, prev_view_mode, cache_holder, input,
                   selected_path_holder, current_directory, current_holder,
                   expand_level, raw_highlight_index, file_opened, file_text_info,
                   app_input, exit, log_message, panicked>>

SpecIndex == IndexInit /\ [][IndexCall]_vars

\* ------------------------------------------------ FileGroupHolder::new alone
\* The disks FileGroupHolder::new is called on: every tree over Nodes.
Disks ==
    {d \in [Nodes -> {"none", "dir", "file"}] :
        /\ d[Root] = "dir"
        /\ \A n \in Nodes \ {Root} :
               d[n] # "none" => (d[n] = KindOf(n) /\ d[Parent(n)] = "dir")}

\* FileGroupHolder::new(path, adding_parent_shortcut) is about to be called;
\* failed: the entries for which the directory iterator yields an Err.
ReadInit ==
    /\ AppInit
    /\ probe \in {[fn |-> "FileGroupHolder::new", disk |-> d, unreadable |-> u,
                   path |-> p, shortcut |-> b, failed |-> f, out |-> <<>>] :
                      d \in Disks, u \in {{}, {PathA}}, p \in {Root, PathA, PathAB},
                      b \in BOOLEAN, f \in SUBSET {PathAB, PathAF, PathAMinus}}
    /\ probe.failed \subseteq Children(probe.disk, probe.path)

\* The call returns.
ReadCall ==
    /\ probe.fn = "FileGroupHolder::new"
    /\ probe.out = <<>>
    /\ probe' = [probe EXCEPT
                    !.out = <<FileGroupHolder_read(probe.disk, probe.unreadable,
                                                   probe.path, probe.shortcut,
                                                   probe.failed)>>]
    /\ UNCHANGED <<disk, unreadable, file_size, fs_ops, input_mode, view_mode,
                   prev_input_mode, prev_view_mode, cache_holder, input,
                   selected_path_holder, current_directory, current_holder,
                   expand_level, raw_highlight_index, file_opened, file_text_info,
                   app_input, exit, log_message, panicked>>

SpecRead == ReadInit /\ [][ReadCall]_vars

\* ------------------------------------ FileTextInfo::get_string_dimensions alone
\* The byte b'\n'.
Newline == "\n"

Max(a, b) == IF a >= b THEN a ELSE b

\* The loop of get_string_dimensions over text.bytes(), from the state
\* (num_rows, max_line_length, current_line_len) on.
RECURSIVE DimensionsLoop(_, _, _, _)
DimensionsLoop(bytes, num_rows, max_line_length, current_line_len) ==
    IF bytes = <<>> THEN <<num_rows, max_line_length, current_line_len>>
    ELSE IF Head(bytes) = Newline
    THEN DimensionsLoop(Tail(bytes), num_rows + 1,
                        Max(max_line_length, current_line_len), 0)
    ELSE DimensionsLoop(Tail(bytes), num_rows, max_line_length, current_line_len + 1)

\* FileTextInfo::get_string_dimensions: (n_rows, max_line_length)
get_string_dimensions(text) ==
    LET after == DimensionsLoop(text, 0, 0, 0)
    IN  IF text # <<>>
        THEN <<after[1] + 1, Max(after[2], after[3])>>
        ELSE <<after[1], after[2]>>

\* Longest text the function is called with, and the bytes of the texts.
MaxText == 4
TextBytes == {"a", "b", Newline}

RECURSIVE TextsOfLen(_)
TextsOfLen(n) ==
    IF n = 0 THEN {<<>>}
    ELSE {Append(s, c) : s \in TextsOfLen(n - 1), c \in TextBytes}

Texts == UNION {TextsOfLen(n) : n \in 0..MaxText}

\* FileTextInfo::get_string_dimensions(text) is about to be called.
DimensionsInit ==
    /\ AppInit
    /\ probe \in {[fn |-> "get_string_dimensions", text |-> x, out |-> <<>>] :
                      x \in Texts}

\* The call returns.
DimensionsCall ==
    /\ probe.fn = "get_string_dimensions"
    /\ probe.out = <<>>
    /\ probe' = [probe EXCEPT !.out = <<get_string_dimensions(probe.text)>>]
    /\ UNCHANGED <<disk, unreadable, file_size, fs_ops, input_mode, view_mode,
                   prev_input_mode, prev_view_mode, cache_holder, input,
                   selected_path_holder, current_directory, current_holder,
                   expand_level, raw_highlight_index, file_opened, file_text_info,
                   app_input, exit, log_message, panicked>>

SpecDimensions == DimensionsInit /\ [][DimensionsCall]_vars

\* ------------------------------------------------ FolderHolder::refresh alone
\* The disks on which /a is a directory.
DisksWithA == {d \in Disks : d[PathA] = "dir"}

\* A FolderHolder in /a in one of the two search modes, on which refresh is
\* about to be called: current_holder is a listing of /a read at some time
\* (the disk may have changed since), the cache holds that listing under /a,
\* or only the listing of /, or nothing, and /a may have become unreadable.
RefreshInit ==
    /\ input_mode \in {"Normal", "Edit"}
    /\ view_mode = "Search"
    /\ prev_input_mode = "Edit"
    /\ prev_view_mode = "Search"
    /\ disk \in DisksWithA
    /\ unreadable \in {{}, {PathA}}
    /\ file_size = [n \in Nodes |-> IF disk[n] = "file" THEN InitFileSize ELSE 0]
    /\ fs_ops = 0
    /\ current_directory = PathA
    /\ current_holder \in {FileGroupHolder_new(d, {}, PathA, TRUE) : d \in DisksWithA}
    /\ cache_holder \in {<<>>,
                         lru_put(<<>>, PathA, current_holder),
                         lru_put(<<>>, Root, FileGroupHolder_new(disk, {}, Root, TRUE))}
    /\ input \in {<<>>, <<"b">>}
    /\ expand_level = 0
    /\ raw_highlight_index = 0
    /\ file_opened = NoPath
    /\ file_text_info = "None"
    /\ app_input = input
    /\ exit = FALSE
    /\ log_message = "none"
    /\ panicked = FALSE
    /\ probe = [fn |-> "FolderHolder::refresh", before |-> <<>>, res |-> "none"]
    /\ selected_path_holder =
           BrowseSelection([current_holder |-> current_holder, input |-> input,
                            current_directory |-> current_directory])

\* The call returns: the probe keeps the state before the call and the
\* result.
RefreshCall ==
    /\ probe.fn = "FolderHolder::refresh"
    /\ probe.before = <<>>
    /\ LET s == refresh(St)
       IN  /\ cache_holder' = s.cache_holder
           /\ input' = s.input
           /\ selected_path_holder' = s.selected_path_holder
           /\ current_directory' = s.current_directory
           /\ current_holder' = s.current_holder
           /\ expand_level' = s.expand_level
           /\ probe' = [probe EXCEPT !.before = <<St>>, !.res = s.res]
    /\ UNCHANGED <<disk, unreadable, file_size, fs_ops, input_mode, view_mode,
                   prev_input_mode, prev_view_mode, raw_highlight_index,
                   file_opened, file_text_info, app_input, exit, log_message,
                   panicked>>

SpecRefresh == RefreshInit /\ [][RefreshCall]_vars

\* ----------------------------------------------- FolderHolder::collapse alone
\* The FolderHolder after /a was listed on the disk d and flattened k times
\* ('e'), as long as the flattening succeeds.
RECURSIVE Flattened(_, _)
Flattened(s, k) ==
    IF k = 0 \/ s.res # "Ok" THEN s ELSE Flattened(expand(s), k - 1)

ListedOn(d) ==
    [disk |-> d, unreadable |-> {},
     file_size |-> [n \in Nodes |-> IF d[n] = "file" THEN InitFileSize ELSE 0],
     input_mode |-> "Normal", view_mode |-> "Search",
     prev_input_mode |-> "Edit", prev_view_mode |-> "Search",
     cache_holder |-> lru_put(<<>>, PathA, FileGroupHolder_new(d, {}, PathA, TRUE)),
     input |-> <<>>,
     selected_path_holder |-> FileGroupHolder_new(d, {}, PathA, TRUE),
     current_directory |-> PathA,
     current_holder |-> FileGroupHolder_new(d, {}, PathA, TRUE),
     expand_level |-> 0, raw_highlight_index |-> 0,
     file_opened |-> NoPath, file_text_info |-> "None", res |-> "Ok"]

\* A FolderHolder in /a in Normal/Search on which collapse is about to be
\* called: /a was listed and flattened at some time on some disk, and the
\* disk may have changed since.
CollapseInit ==
    /\ input_mode = "Normal"
    /\ view_mode = "Search"
    /\ prev_input_mode = "Edit"
    /\ prev_view_mode = "Search"
    /\ disk \in DisksWithA
    /\ unreadable = {}
    /\ file_size = [n \in Nodes |-> IF disk[n] = "file" THEN InitFileSize ELSE 0]
    /\ fs_ops = 0
    /\ current_directory = PathA
    /\ \E d \in DisksWithA, k \in 0..MaxExpand :
           LET s == Flattened(ListedOn(d), k)
           IN  /\ s.res = "Ok"
               /\ cache_holder = s.cache_holder
               /\ input = s.input
               /\ selected_path_holder = s.selected_path_holder
               /\ current_holder = s.current_holder
               /\ expand_level = s.expand_level
    /\ raw_highlight_index = 0
    /\ file_opened = NoPath
    /\ file_text_info = "None"
    /\ app_input = <<>>
    /\ exit = FALSE
    /\ log_message = "none"
    /\ panicked = FALSE
    /\ probe = [fn |-> "FolderHolder::collapse", before |-> <<>>, res |-> "none"]

\* The call returns: the probe keeps the state before the call and the
\* result.
CollapseCall ==
    /\ probe.fn = "FolderHolder::collapse"
    /\ probe.before = <<>>
    /\ LET s == collapse(St)
       IN  /\ cache_holder' = s.cache_holder
           /\ input' = s.input
           /\ selected_path_holder' = s.selected_path_holder
           /\ current_directory' = s.current_directory
           /\ current_holder' = s.current_holder
           /\ expand_level' = s.expand_level
           /\ probe' = [probe EXCEPT !.before = <<St>>, !.res = s.res]
    /\ UNCHANGED <<disk, unreadable, file_size, fs_ops, input_mode, view_mode,
                   prev_input_mode, prev_view_mode, raw_highlight_index,
                   file_opened, file_text_info, app_input, exit, log_message,
                   panicked>>

SpecCollapse == CollapseInit /\ [][CollapseCall]_vars

\* ------------------------------------------------------ StateHolder alone
\* The two enums of the state holder and the pair of the two modes.
InputModes == {"Normal", "Edit"}
ViewModes == {"Search", "FileView", "HistoryFolderView"}
ModePair(s) == <<s.input_mode, s.view_mode>>

\* A StateHolder with any values in its four fields, on which no operation
\* has been called yet.
StateInit ==
    /\ EngineInit
    /\ input_mode \in InputModes
    /\ view_mode \in ViewModes
    /\ prev_input_mode \in InputModes
    /\ prev_view_mode \in ViewModes
    /\ probe = [fn |-> "StateHolder", op |-> "none", before |-> <<>>,
                saved |-> <<>>]

\* One operation of the state holder is called and leaves s; the probe
\* keeps the name of the operation, the pair in force before it and the pair
\* in force before the last of the to_* transitions.
StateCall(op, s) ==
    /\ probe.fn = "StateHolder"
    /\ input_mode' = s.input_mode
    /\ view_mode' = s.view_mode
    /\ prev_input_mode' = s.prev_input_mode
    /\ prev_view_mode' = s.prev_view_mode
    /\ probe' = [probe EXCEPT
                    !.op = op,
                    !.before = ModePair(St),
                    !.saved = IF op = "restore_previous_state" THEN @
                              ELSE ModePair(St)]
    /\ UNCHANGED <<disk, unreadable, file_size, fs_ops, cache_holder, input,
                   selected_path_holder, current_directory, current_holder,
                   expand_level, raw_highlight_index, file_opened, file_text_info,
                   app_input, exit, log_message, panicked>>

CallToSearch == StateCall("to_search", to_search(St))
CallToSearchEdit == StateCall("to_search_edit", to_search_edit(St))
CallToHistorySearch == StateCall("to_history_search", to_history_search(St))
CallToFileView == StateCall("to_file_view", to_file_view(St))
CallRestore == StateCall("restore_previous_state", restore_previous_state(St))

StateNext ==
    \/ CallToSearch \/ CallToSearchEdit \/ CallToHistorySearch
    \/ CallToFileView \/ CallRestore

SpecState == StateInit /\ [][StateNext]_vars

\* ------------------------------------------------------------------ claims
\* The paths of a list of entries, the keys of a cache.
Paths(entries) == SeqMap(to_path, entries)
KeysOf(c) == SeqMap(LAMBDA e : e.key, c)
KeySet(c) == {c[i].key : i \in 1..Len(c)}

\* The highlighted row (from 1) and the path a submit resolves it to.
Highlighted == get_highlight_index(St, Len(selected_path_holder)) + 1
Target == FolderHolder_submit(St, Highlighted)

\* Enter in one of the three modes that list entries.
EnterKey == KeyEnterNormal \/ KeyEnterEdit \/ KeyEnterHistory

\* C1: in every reachable state selected_path_holder is the filter applied,
\* in order, to the cache keys when the state machine is in history mode and
\* to current_holder otherwise.
C1_SelectedIsProjection ==
    IF view_mode = "HistoryFolderView"
    THEN Paths(selected_path_holder) = HistorySelection(St)
    ELSE selected_path_holder = BrowseSelection(St)

\* C2: in every reachable state the cache holds a snapshot for
\* current_directory.
C2_CurrentDirectoryCached == CacheHas(cache_holder, current_directory)

\* The highlighted row of the history list is a cached directory that is
\* gone from the disk.
StaleHistoryEntry ==
    /\ EditHistory
    /\ selected_path_holder # <<>>
    /\ SubmitOp(St) = "drop"
    /\ CacheHas(cache_holder, to_path(selected_path_holder[Highlighted]))

\* What MessageHolder::submit does with such a row.
C3_DropEffect ==
    LET s == submit(St)
        gone == to_path(selected_path_holder[Highlighted])
    IN  /\ s.res = "Ok"
        /\ s.selected_path_holder = RemoveAt(selected_path_holder, Highlighted)
        /\ s.cache_holder = CacheWithout(cache_holder, gone)
        /\ Len(s.cache_holder) = Len(cache_holder) - 1
        /\ s.input_mode = "Edit"
        /\ s.view_mode = "HistoryFolderView"
        /\ \A i \in 1..Len(HistorySelection(s)) : HistorySelection(s)[i] # gone

C3_NoResurface ==
    \A k \in KeySet(cache_holder') :
        ~CacheHas(cache_holder, k) => current_directory' = k

\* C3: in history mode, submitting (Enter) a history entry whose directory is
\* gone returns no error, removes that entry from selected_path_holder and
\* that key from the cache, leaves the other entries, the other keys and
\* their order as they were and stays in history mode; the path is not
\* selected when the list is computed again, and a key comes into the cache
\* only by being entered.
C3_StaleHistoryEntryDropped ==
    /\ [](StaleHistoryEntry => C3_DropEffect)
    /\ [][/\ (StaleHistoryEntry /\ KeyEnterHistory) =>
                 /\ selected_path_holder' =
                        RemoveAt(selected_path_holder, Highlighted)
                 /\ cache_holder' =
                        CacheWithout(cache_holder,
                                     to_path(selected_path_holder[Highlighted]))
                 /\ log_message' = log_message
                 /\ input_mode' = "Edit"
                 /\ view_mode' = "HistoryFolderView"
          /\ C3_NoResurface]_vars

\* What C4 says of one state.
C4_ReachableModes_Here ==
    <<input_mode, view_mode>> \in
        {<<"Normal", "Search">>, <<"Edit", "Search">>,
         <<"Edit", "HistoryFolderView">>, <<"Normal", "FileView">>}

\* C4: the state machine is only ever in (Normal, Search), (Edit, Search),
\* (Edit, HistoryFolderView) or (Normal, FileView).
C4_ReachableModes == []C4_ReachableModes_Here

\* C4 witness: the file view has been entered from the edit mode.
C4_Witness ==
    /\ input_mode = "Normal" /\ view_mode = "FileView"
    /\ prev_input_mode = "Edit" /\ prev_view_mode = "Search"

\* C5: an Enter that enters a directory without error ends with that
\* directory the most recently used cache key and the current directory,
\* current_holder the entries of its cached snapshot, the filter empty,
\* expand_level 0 and selected_path_holder all of current_holder.
EnterSucceeds ==
    /\ selected_path_holder # <<>>
    /\ SubmitOp(St) = "enter"
    /\ submit(St).res = "Ok"
    /\ EnterKey

C5_EnterPostcondition ==
    [][EnterSucceeds =>
          /\ cache_holder'[1].key = Target
          /\ current_directory' = Target
          /\ current_holder' = cache_holder'[1].child
          /\ input' = <<>>
          /\ expand_level' = 0
          /\ selected_path_holder' = current_holder']_vars

\* C5 witness: a flattened and filtered listing whose highlighted row is a
\* directory that the submit enters, resetting the filter and the level.
C5_Witness ==
    /\ EditSearch
    /\ input # <<>>
    /\ expand_level > 0
    /\ selected_path_holder # <<>>
    /\ SubmitOp(St) = "enter"
    /\ submit(St).res = "Ok"
    /\ submit(St).current_directory = Target
    /\ submit(St).current_directory # current_directory
    /\ submit(St).expand_level = 0

\* C6 as claimed: an Enter on a directory that cannot be read returns a
\* Parse error and leaves the cache, current_directory, current_holder, the
\* filter, expand_level and selected_path_holder as they were.
EngineUnchanged ==
    UNCHANGED <<cache_holder, current_directory, current_holder, input,
                expand_level, selected_path_holder>>

EnterUnreadable ==
    /\ selected_path_holder # <<>>
    /\ SubmitOp(St) = "enter"
    /\ ~CanRead(disk, unreadable, Target)
    /\ EnterKey

C6_UnreadableDirectoryRejected ==
    [][EnterUnreadable => (submit(St).res = "Parse" /\ EngineUnchanged)]_vars

\* C6 amended: an Enter on a directory that cannot be read and has no
\* snapshot in the cache returns a Parse error and leaves the engine state
\* as it was.
C6_UncachedUnreadableDirectoryRejected ==
    [][(EnterUnreadable /\ ~CacheHas(cache_holder, Target))
          => (submit(St).res = "Parse" /\ EngineUnchanged)]_vars

\* C6 witness: the Parse error has been reported and the highlighted row is
\* still the unreadable directory that has no snapshot.
C6_Witness ==
    /\ log_message = "Parse"
    /\ view_mode = "Search"
    /\ selected_path_holder # <<>>
    /\ SubmitOp(St) = "enter"
    /\ ~CanRead(disk, unreadable, Target)
    /\ ~CacheHas(cache_holder, Target)
    /\ CanRead(disk, unreadable, current_directory)

\* C7: in history mode with an empty filter selected_path_holder lists the
\* cache keys, each once, the most recently used first.
C7_HistoryListsCacheByRecency ==
    (view_mode = "HistoryFolderView" /\ input = <<>>)
        => Paths(selected_path_holder) = KeysOf(cache_holder)

\* C8: the cache never holds more than CacheCapacity keys, and a step that
\* brings a new key into a full cache removes exactly one key, the least
\* recently used one.
C8_EvictsLeastRecentlyUsed ==
    \A k \in KeySet(cache_holder') :
        (/\ Len(cache_holder) = CacheCapacity
         /\ ~CacheHas(cache_holder, k))
            => KeySet(cache_holder') =
                   (KeySet(cache_holder) \ {cache_holder[CacheCapacity].key})
                       \cup {k}

C8_CacheBounded ==
    /\ [](Len(cache_holder) <= CacheCapacity)
    /\ [][C8_EvictsLeastRecentlyUsed]_vars

\* C8 witness: the cache is full and the highlighted row is a readable
\* directory without a snapshot, which the submit enters in place of the
\* least recently used key.
C8_Witness ==
    /\ NormalSearch \/ EditSearch
    /\ Len(cache_holder) = CacheCapacity
    /\ selected_path_holder # <<>>
    /\ SubmitOp(St) = "enter"
    /\ ~CacheHas(cache_holder, Target)
    /\ submit(St).res = "Ok"
    /\ KeysOf(submit(St).cache_holder) =
           <<Target>> \o SubSeq(KeysOf(cache_holder), 1, CacheCapacity - 1)

\* C9: an Enter on a directory that has a snapshot in the cache does not
\* read the disk: current_holder becomes that snapshot and the snapshot stays
\* in the cache, whatever the disk holds now; and the snapshot of a key that
\* stays in the cache changes only when that key is the current directory
\* and is refreshed.
EnterCached ==
    /\ selected_path_holder # <<>>
    /\ SubmitOp(St) = "enter"
    /\ CacheHas(cache_holder, Target)
    /\ EnterKey

C9_SnapshotKept ==
    \A k \in KeySet(cache_holder) :
        (/\ cache_holder' # cache_holder
         /\ CacheHas(cache_holder, k)
         /\ CacheHas(cache_holder', k)
         /\ lru_peek(cache_holder', k) # lru_peek(cache_holder, k))
            => (k = current_directory /\ current_directory' = k)

C9_ReentryUsesCachedSnapshot ==
    [][/\ EnterCached =>
              /\ submit(St).res = "Ok"
              /\ current_directory' = Target
              /\ current_holder' = lru_peek(cache_holder, Target)
              /\ lru_peek(cache_holder', Target) = lru_peek(cache_holder, Target)
       /\ C9_SnapshotKept]_vars

\* C9 witness: a second directory is current, the highlighted row leads back
\* to the first one, whose listing on the disk is no longer the cached
\* snapshot, and the submit shows the cached snapshot.
C9_Witness ==
    /\ NormalSearch \/ EditSearch
    /\ selected_path_holder # <<>>
    /\ SubmitOp(St) = "enter"
    /\ Target # current_directory
    /\ CacheHas(cache_holder, Target)
    /\ CanRead(disk, unreadable, Target)
    /\ lru_peek(cache_holder, Target)
           # FileGroupHolder_new(disk, unreadable, Target, TRUE)
    /\ submit(St).current_holder = lru_peek(cache_holder, Target)

\* What C10 says of one state.
C10_UpdateNoneOnlySelects_Here ==
    LET s1 == FolderHolder_update(St, None)
        s2 == FolderHolder_update(s1, None)
    IN  /\ s1.cache_holder = cache_holder
        /\ s1.current_directory = current_directory
        /\ s1.current_holder = current_holder
        /\ s1.input = input
        /\ s1.expand_level = expand_level
        /\ s1.disk = disk
        /\ s2.selected_path_holder = s1.selected_path_holder
        /\ s2.res = s1.res

\* C10: FolderHolder::update(None) changes nothing but selected_path_holder
\* (the cache and its order, current_directory, current_holder, the filter
\* and expand_level stay), in the browse modes and in history mode, and a
\* second update(None) yields the same selected_path_holder.
C10_UpdateNoneOnlySelects == []C10_UpdateNoneOnlySelects_Here

\* C10 witness: history mode over two cached directories under a filter
\* that selects only one of them, where update(None) has a list to rebuild.
C10_Witness ==
    /\ view_mode = "HistoryFolderView"
    /\ Len(cache_holder) = 2
    /\ input # <<>>
    /\ FolderHolder_update(St, None).res = "Ok"
    /\ Len(FolderHolder_update(St, None).selected_path_holder) = 1
    /\ selected_path_holder = FolderHolder_update(St, None).selected_path_holder

\* C11: should_select_helper(name, filter) is true exactly when the filter
\* is empty or its characters occur in name in order, not necessarily next
\* to each other, letters compared without regard to case.
IsSubsequence(sub, str) ==
    \E at \in [1..Len(sub) -> 1..Len(str)] :
        /\ \A i, j \in 1..Len(sub) : i < j => at[i] < at[j]
        /\ \A i \in 1..Len(sub) :
               to_ascii_lowercase(sub[i]) = to_ascii_lowercase(str[at[i]])

C11_FilterIsSubsequenceMatch ==
    (probe.fn = "should_select_helper" /\ probe.out # <<>>)
        => (probe.out[1] <=>
                (probe.input = <<>> \/ IsSubsequence(probe.input, probe.name)))

\* C11 witness: ("aBc", "bc") has been answered TRUE, the letters apart in
\* case.
C11_Witness ==
    /\ probe.fn = "should_select_helper"
    /\ probe.name = <<"a", "B", "c">>
    /\ probe.input = <<"b", "c">>
    /\ probe.out = <<TRUE>>

\* The set of the elements of a sequence.
Range(seq) == {seq[i] : i \in 1..Len(seq)}

\* The engine shows the present listing of a readable current directory
\* whose subdirectories are readable and hold no directory.
OneLevelDirectory ==
    /\ CanRead(disk, unreadable, current_directory)
    /\ current_holder =
           FileGroupHolder_new(disk, unreadable, current_directory, TRUE)
    /\ \A n \in Children(disk, current_directory) :
           disk[n] = "dir" =>
               /\ CanRead(disk, unreadable, n)
               /\ \A m \in Children(disk, n) : disk[m] # "dir"

\* C12: from expand_level = 0 in a directory whose subdirectories hold no
\* further directory (empty subdirectories included), expand() followed by
\* collapse() succeeds, leaves expand_level = 0 and leaves current_children
\* with the same set of entries as before.
C12_ExpandCollapseRestores ==
    (expand_level = 0 /\ OneLevelDirectory) =>
        LET t == collapse(expand(St))
        IN  /\ t.res = "Ok"
            /\ t.expand_level = 0
            /\ Range(t.current_holder) = Range(current_holder)

\* Browse mode with a highlighted entry that is gone from the disk, in a
\* current directory that can still be read.
StaleBrowseEntry ==
    /\ view_mode = "Search"
    /\ selected_path_holder # <<>>
    /\ Target = NoPath
    /\ CanRead(disk, unreadable, current_directory)

RefreshEffect ==
    LET s == submit(St)
        listing == FileGroupHolder_new(disk, unreadable, current_directory, TRUE)
    IN  /\ s.res = "Ok"
        /\ s.current_directory = current_directory
        /\ s.input_mode = input_mode
        /\ s.view_mode = view_mode
        /\ CacheHas(s.cache_holder, current_directory)
        /\ lru_peek(s.cache_holder, current_directory) = listing
        /\ s.current_holder = listing
        /\ s.input = input
        /\ s.selected_path_holder =
               SelectSeq(listing,
                         LAMBDA fh : should_select_helper(
                                         relative_to(fh, current_directory), input))
        /\ selected_path_holder[Highlighted] \notin Range(s.selected_path_holder)

\* What C13 says of one state.
C13_StaleBrowseEntryRefreshes_Here == StaleBrowseEntry => RefreshEffect

\* C13: in browse mode, submitting a selected entry that no longer exists on
\* the disk, in a current directory that is still readable, returns no
\* error, keeps current_directory and the mode, replaces the cache snapshot
\* of current_directory and current_holder by the present listing of the
\* disk, and recomputes selected_path_holder under the unchanged filter, so
\* that the stale entry is gone.
C13_StaleBrowseEntryRefreshes == []C13_StaleBrowseEntryRefreshes_Here

\* C13 witness: the highlighted row of a browse listing is gone from the
\* disk and the submit replaces the listing by a shorter one.
C13_Witness ==
    /\ StaleBrowseEntry
    /\ RefreshEffect
    /\ Len(submit(St).current_holder) < Len(current_holder)

\* History mode with a highlighted history entry (a key of the cache) that
\* resolves to a directory on the disk.
HistoryEntryIsDirectory ==
    /\ EditHistory
    /\ selected_path_holder # <<>>
    /\ SubmitOp(St) = "enter"
    /\ CacheHas(cache_holder, to_path(selected_path_holder[Highlighted]))

C14_EnterEffect ==
    LET s == submit(St)
    IN  /\ s.res = "Ok"
        /\ s.input_mode = "Normal"
        /\ s.view_mode = "Search"
        /\ s.current_directory = Target
        /\ s.cache_holder[1].key = Target
        /\ s.current_holder = lru_peek(cache_holder, Target)
        /\ s.selected_path_holder = s.current_holder
        /\ s.selected_path_holder = BrowseSelection(s)

\* C14: in history mode, submitting a history entry that resolves to an
\* existing directory leaves history mode for (Normal, Search), makes that
\* directory current_directory and the most recently used key of the cache,
\* and makes selected_path_holder the children of that directory (the browse
\* projection of current_holder), not the history list; the Enter key of the
\* history handler ends in that state.
C14_HistoryEntryEntered ==
    /\ [](HistoryEntryIsDirectory => C14_EnterEffect)
    /\ [][(HistoryEntryIsDirectory /\ KeyEnterHistory) =>
              /\ input_mode' = "Normal"
              /\ view_mode' = "Search"
              /\ current_directory' = Target
              /\ cache_holder'[1].key = Target
              /\ selected_path_holder' = lru_peek(cache_holder, Target)
              /\ selected_path_holder' = current_holder']_vars

\* C14 witness: the history list shows two directories, the highlighted one
\* is not the current directory, and the submit enters it.
C14_Witness ==
    /\ HistoryEntryIsDirectory
    /\ Len(selected_path_holder) = 2
    /\ Target # current_directory
    /\ cache_holder[1].key # Target
    /\ submit(St).current_directory = Target
    /\ submit(St).view_mode = "Search"
    /\ Paths(selected_path_holder) # Paths(submit(St).selected_path_holder)

\* The modes a listing is shown in.
ListingModes ==
    {<<"Normal", "Search">>, <<"Edit", "Search">>, <<"Edit", "HistoryFolderView">>}

\* The submit of the highlighted entry opens a file.
OpensFile ==
    /\ selected_path_holder # <<>>
    /\ SubmitOp(St) = "open"
    /\ submit(St).res = "Ok"

\* What the submit that opens a file, and the 'q' that closes it, do to the
\* state machine.
C15_OpenThenClose ==
    LET s == submit(St)
        q == restore_previous_state(reset(s))
    IN  /\ s.view_mode = "FileView"
        /\ <<s.prev_input_mode, s.prev_view_mode>> = <<input_mode, view_mode>>
        /\ <<q.input_mode, q.view_mode>> = <<input_mode, view_mode>>

\* C15: whenever view_mode is FileView the saved pair is the search or
\* history mode the file was opened from (it is saved when FileView is
\* entered and kept while the file is shown), and 'q' returns the state
\* machine to exactly that pair, for every mode a file can be opened from.
C15_FileViewReturnsToOpener ==
    /\ [](view_mode = "FileView" =>
              <<prev_input_mode, prev_view_mode>> \in ListingModes)
    /\ [](OpensFile => C15_OpenThenClose)
    /\ [][(view_mode # "FileView" /\ view_mode' = "FileView") =>
              <<prev_input_mode', prev_view_mode'>> = <<input_mode, view_mode>>]_vars
    /\ [][(view_mode = "FileView" /\ view_mode' = "FileView") =>
              UNCHANGED <<prev_input_mode, prev_view_mode>>]_vars
    /\ [][(view_mode = "FileView" /\ KeyQuit) =>
              <<input_mode', view_mode'>> = <<prev_input_mode, prev_view_mode>>]_vars

\* C15 witness: a file opened from (Edit, Search) is shown, and 'q' leads
\* back to (Edit, Search).
C15_Witness ==
    /\ view_mode = "FileView"
    /\ file_opened # NoPath
    /\ <<prev_input_mode, prev_view_mode>> = <<"Edit", "Search">>
    /\ restore_previous_state(reset(St)).input_mode = "Edit"
    /\ restore_previous_state(reset(St)).view_mode = "Search"

\* What C16 says of one state.
C16_RestoreIdempotent_Here ==
    LET r == restore_previous_state(St)
    IN  /\ <<r.input_mode, r.view_mode>> = <<prev_input_mode, prev_view_mode>>
        /\ <<r.prev_input_mode, r.prev_view_mode>> = <<prev_input_mode, prev_view_mode>>
        /\ restore_previous_state(r) = r

\* C16: restore_previous_state sets (input_mode, view_mode) to
\* (prev_input_mode, prev_view_mode) and leaves the saved pair alone, so a
\* second restore_previous_state in a row changes nothing.
C16_RestoreIdempotent == []C16_RestoreIdempotent_Here

\* C16 witness: a state whose saved pair differs from the present pair, so
\* that the first restore changes the mode.
C16_Witness ==
    /\ <<input_mode, view_mode>> = <<"Normal", "FileView">>
    /\ <<prev_input_mode, prev_view_mode>> = <<"Edit", "Search">>
    /\ restore_previous_state(St).view_mode = "Search"
    /\ restore_previous_state(restore_previous_state(St)).view_mode = "Search"

\* C17: to_parent, called in a directory that is not the root (and that is
\* still on the disk, below a parent that can be read), makes
\* current_directory the parent of the current directory, whatever the
\* filter, the highlight index and the names of the children are.
C17_ToParentEntersParent ==
    (/\ NormalSearch
     /\ HasParent(current_directory)
     /\ disk[current_directory] = "dir"
     /\ CanRead(disk, unreadable, Parent(current_directory)))
        => /\ to_parent(St).res = "Ok"
           /\ to_parent(St).current_directory = Parent(current_directory)

\* All that a successful removal of the highlighted entry takes away, and
\* whether the removal can succeed: nothing below the entry is protected.
WholeTarget == Subtree(disk, Target) \ {Root}
CanRemoveTarget == Blocked(disk, unreadable, Target) = {}

\* What delete leaves behind when it has acted on the highlighted entry and
\* the removal has taken gone from the disk.
DeleteEffect(gone) ==
    LET s == delete(St, gone)
        listing == FileGroupHolder_new(s.disk, s.unreadable, current_directory, TRUE)
    IN  /\ s.res = "Ok"
        /\ (CanRemoveTarget /\ gone = WholeTarget) => s.disk[Target] = "none"
        /\ gone = {} => s.disk = disk
        /\ (gone = {} \/ ~CanRemoveTarget) =>
               KeySet(s.cache_holder) = KeySet(cache_holder)
        /\ s.current_directory = current_directory
        /\ CacheHas(s.cache_holder, current_directory)
        /\ lru_peek(s.cache_holder, current_directory) = listing
        /\ s.current_holder = listing

\* C18: delete (Ctrl+D in a readable current directory that shows its
\* filtered listing) on a highlighted entry removes it from the disk and refreshes: the cache snapshot of
\* current_directory and current_holder equal the present listing of the
\* disk and current_directory is still cached; when the removal fails,
\* delete still returns Ok with the same keys in the cache and the snapshot
\* equal to the listing; with an empty selected_path_holder it changes
\* nothing.
C18_DeleteRefreshes ==
    (/\ NormalSearch
     /\ CanRead(disk, unreadable, current_directory)
     /\ selected_path_holder = BrowseSelection(St)) =>
        /\ selected_path_holder = <<>> =>
               \A gone \in DeleteOutcomes(St) : delete(St, gone) = St
        /\ (selected_path_holder # <<>> /\ Target # NoPath) =>
               \A gone \in DeleteOutcomes(St) : DeleteEffect(gone)

\* MessageHolder::draw_folder_view returns the Cache error of
\* FolderHolder::peek: rows are shown outside history mode and the cache has
\* no entry for current_directory.
DrawFailsWithCache ==
    /\ file_opened = NoPath
    /\ drawn_rows(St) # <<>>
    /\ ~is_history_search(St)
    /\ ~peek_ok(St)

\* C19: no sequence of keys and changes of the disk makes the process panic
\* because of a Cache error (a key missing from the cache): also when the
\* error arises while the folder view is drawn, the main loop keeps running.
C19_NoPanicOnCacheError == ~(panicked /\ DrawFailsWithCache)

\* The highlighted entry is a regular file of the disk.
SubmitsFile ==
    /\ Running
    /\ view_mode \in {"Search", "HistoryFolderView"}
    /\ selected_path_holder # <<>>
    /\ SubmitOp(St) = "open"

\* What C20 says of one state.
C20_FileSizeCap_Here ==
    SubmitsFile =>
        LET s == submit(St)
        IN  IF file_size[Target] > 10 * 1024 * 1024
            THEN /\ s.res = "Path"
                 /\ s.file_opened = file_opened
                 /\ s.file_text_info = file_text_info
                 /\ <<s.input_mode, s.view_mode>> = <<input_mode, view_mode>>
                 /\ s.view_mode # "FileView"
            ELSE /\ s.res = "Ok"
                 /\ s.file_opened = Target
                 /\ s.file_text_info = "Some"
                 /\ <<s.input_mode, s.view_mode>> = <<"Normal", "FileView">>

\* C20: submitting a regular file larger than 10 MiB fails with a Path
\* error and loads nothing (file_opened, file_text_info and the mode are as
\* before, None and not FileView when no file was open); submitting a file of
\* at most 10 MiB opens it and enters (Normal, FileView).
C20_FileSizeCap == []C20_FileSizeCap_Here

\* C20 witness: the highlighted file is one byte over the limit, no file is
\* open, and the submit fails leaving file_opened and file_text_info None.
C20_Witness ==
    /\ SubmitsFile
    /\ file_size[Target] = 10 * 1024 * 1024 + 1
    /\ file_opened = NoPath
    /\ submit(St).res = "Path"
    /\ submit(St).file_opened = NoPath
    /\ submit(St).file_text_info = "None"

\* C21: for every raw index of the i32 range and every length with
\* 0 < len <= i32::MAX the wrapped highlight index is the Euclidean remainder
\* of raw by len: it lies in [0, len), differs from raw by a multiple of len,
\* and maps -1 to len - 1 and len to 0.
C21_WrapIsEuclideanRemainder ==
    (probe.fn = "get_highlight_index_helper" /\ probe.out # <<>>) =>
        LET r == probe.out[1]
        IN  /\ 0 <= r
            /\ r < probe.len
            /\ r % probe.len = probe.raw % probe.len
            /\ probe.raw = 0 - 1 => r = probe.len - 1
            /\ probe.raw = probe.len => r = 0
            /\ (probe.raw = 1 /\ probe.len = 10) => r = 1
            /\ (probe.raw = 5 /\ probe.len = 3) => r = 2

\* C21 witness: the call with raw = -1 and len = 10 has returned 9.
C21_Witness ==
    /\ probe.fn = "get_highlight_index_helper"
    /\ probe.raw = 0 - 1
    /\ probe.len = 10
    /\ probe.out = <<9>>

\* C22: a file opened from the search view with a filter in force leaves
\* selected_path_holder as it is, and closing the file view with 'q' leaves
\* it as it is as well: the list shown after 'q' is the filtered list shown
\* immediately before the file was opened.
C22_FilterSurvivesFileView ==
    /\ [][(view_mode = "Search" /\ view_mode' = "FileView") =>
              selected_path_holder' = selected_path_holder]_vars
    /\ [][(view_mode = "FileView" /\ prev_view_mode = "Search" /\ KeyQuit) =>
              selected_path_holder' = selected_path_holder]_vars

\* C23: in the directory the application was started in, to_parent (Tab,
\* then Ctrl+K in (Normal, Search)) fails with a Path error and the engine
\* stays in that directory.
C23_ParentOfStartDirectoryRejected ==
    [][(NormalSearch /\ current_directory = PathA /\ KeyToParent) =>
           /\ to_parent(St).res = "Path"
           /\ current_directory' = PathA]_vars

\* The pair each transition of the state holder ends in.
TransitionTarget(op) ==
    CASE op = "to_search" -> <<"Normal", "Search">>
      [] op = "to_search_edit" -> <<"Edit", "Search">>
      [] op = "to_history_search" -> <<"Edit", "HistoryFolderView">>
      [] op = "to_file_view" -> <<"Normal", "FileView">>

Transitions == {"to_search", "to_search_edit", "to_history_search", "to_file_view"}

\* C24: to_search, to_search_edit, to_history_search and to_file_view,
\* applied in any state (i, v, pi, pv), end with (prev_input_mode,
\* prev_view_mode) = (i, v) and with (input_mode, view_mode) equal to the
\* fixed target of the transition.
C24_TransitionsSaveAndSet ==
    (probe.fn = "StateHolder" /\ probe.op \in Transitions) =>
        /\ <<prev_input_mode, prev_view_mode>> = probe.before
        /\ <<input_mode, view_mode>> = TransitionTarget(probe.op)

\* C24 witness: to_history_search has been applied in (Normal, FileView).
C24_Witness ==
    /\ probe.fn = "StateHolder"
    /\ probe.op = "to_history_search"
    /\ probe.before = <<"Normal", "FileView">>
    /\ <<input_mode, view_mode>> = <<"Edit", "HistoryFolderView">>
    /\ <<prev_input_mode, prev_view_mode>> = <<"Normal", "FileView">>

\* C25 as claimed: once an operation of the state holder (a to_* transition
\* or restore_previous_state) has been applied, the saved pair is the pair
\* that held immediately before the most recent operation.
C25_PrevIsPairBeforeLastOperation ==
    (probe.fn = "StateHolder" /\ probe.op # "none") =>
        <<prev_input_mode, prev_view_mode>> = probe.before

\* C25, amended: once a to_* transition has been applied, the saved pair is
\* the pair that held immediately before the most recent to_* transition;
\* restore_previous_state does not save.
C25_PrevIsPairBeforeLastTransition ==
    (probe.fn = "StateHolder" /\ probe.saved # <<>>) =>
        <<prev_input_mode, prev_view_mode>> = probe.saved

\* C25 witness: restore_previous_state has been applied after a transition
\* from another pair, and the saved pair is still the one the transition
\* saved.
C25_Witness ==
    /\ probe.fn = "StateHolder"
    /\ probe.op = "restore_previous_state"
    /\ probe.saved = <<"Edit", "Search">>
    /\ probe.before = <<"Normal", "FileView">>
    /\ <<prev_input_mode, prev_view_mode>> = <<"Edit", "Search">>
    /\ <<input_mode, view_mode>> = <<"Edit", "Search">>

\* The depth of an entry below current_directory: the separators of its
\* path relative to current_directory.
Depth(s, fh) == CountSlash(relative_to(fh, s.current_directory))

\* Every entry of current_holder is still on the disk, every directory
\* among them can be read, and the directories after element 0 lie
\* expand_level levels below current_directory.
ExpandableListing ==
    /\ current_holder # <<>>
    /\ \A i \in 1..Len(current_holder) :
           /\ to_path_canonicalize(disk, current_holder[i]) # NoPath
           /\ relative_to_ok(current_holder[i], current_directory)
    /\ \A i \in 2..Len(current_holder) :
           LET q == to_path_canonicalize(disk, current_holder[i])
           IN  /\ disk[q] = "dir" => CanRead(disk, unreadable, q)
               /\ ~current_holder[i].is_file =>
                      Depth(St, current_holder[i]) = expand_level

\* What expand puts in the place of one entry: the children of a directory,
\* sorted by name and without "..", or the file itself.
ExpandedEntry(fh) ==
    IF fh.is_file THEN <<fh>>
    ELSE SortByName({try_from(disk, n) : n \in Children(disk, to_path(fh))})

\* C26: a successful expand() ('e' in (Normal, Search)) keeps element 0 of current_holder, which is
\* the ".." shortcut, fixed and unexpanded; replaces in place and in order
\* every other directory entry by its freshly read children (without "..",
\* the cache untouched) and keeps every other file entry; recomputes
\* selected_path_holder; and adds exactly one to expand_level.  After the
\* expand every shown directory lies one level deeper than before, so k
\* levels below current_directory after k expands.
C26_ExpandFlattensOneLevel ==
    (NormalSearch /\ ExpandableListing) =>
        LET s == expand(St)
        IN  /\ s.res = "Ok"
            /\ current_holder[1].file_name = DotDot
            /\ s.current_holder =
                   <<current_holder[1]>>
                   \o Flatten(SeqMap(ExpandedEntry, Tail(current_holder)))
            /\ s.cache_holder = cache_holder
            /\ s.selected_path_holder = BrowseSelection(s)
            /\ s.expand_level = expand_level + 1
            /\ \A i \in 2..Len(s.current_holder) :
                   ~s.current_holder[i].is_file =>
                       Depth(s, s.current_holder[i]) = s.expand_level

\* A sequence of entries in the strict order of their names.
SortedByName(entries) ==
    \A i, j \in 1..Len(entries) :
        i < j => StrLess(entries[i].file_name, entries[j].file_name)

\* C27: every snapshot built with the parent shortcut for a directory that
\* is not the root has the synthetic ".." entry at index 0, followed by the
\* children of the directory sorted by name, whatever the names of the
\* children are; a snapshot built without the shortcut holds the children
\* only, sorted by name.
C27_ShortcutFirstThenSorted ==
    \A n \in Nodes :
        (disk[n] = "dir" /\ CanRead(disk, unreadable, n)) =>
            LET with == FileGroupHolder_new(disk, unreadable, n, TRUE)
                without == FileGroupHolder_new(disk, unreadable, n, FALSE)
            IN  /\ SortedByName(without)
                /\ Range(without) = {try_from(disk, m) : m \in Children(disk, n)}
                /\ Len(without) = Cardinality(Children(disk, n))
                /\ HasParent(n) => with = <<FileHolder(n, DotDot, FALSE)>> \o without
                /\ ~HasParent(n) => with = without

\* What C28 says of one state.
C28_CollapseLowersLevel_Here ==
    LET s == collapse(St)
    IN  /\ expand_level = 0 => s = St
        /\ expand_level > 0 => s.expand_level = expand_level - 1
        /\ s.expand_level >= 0
        /\ s.expand_level = 0 => collapse(s) = s

\* C28: collapse() with expand_level = 0 returns Ok and leaves the whole
\* engine state unchanged; with expand_level = n > 0 it sets expand_level to
\* n - 1; expand_level never goes below 0, and once it is 0 further
\* collapses change nothing.
C28_CollapseLowersLevel == []C28_CollapseLowersLevel_Here

\* C28 witness: a flattened listing at level 1 that collapse folds back to
\* level 0, where a second collapse changes nothing.
C28_Witness ==
    /\ NormalSearch
    /\ expand_level = 1
    /\ collapse(St).res = "Ok"
    /\ collapse(St).expand_level = 0
    /\ collapse(St).current_holder # current_holder
    /\ collapse(collapse(St)) = collapse(St)

\* What collapse puts in the place of one entry: the entry of its parent
\* directory when it lies deeper than the new level, the entry itself
\* otherwise.
FoldedEntry(fh) ==
    IF Depth(St, fh) > expand_level - 1
    THEN try_from(disk, canonicalize(disk, fh.parent))
    ELSE fh

\* The first place of the entries at which the folded entry is e.
FirstFoldedAt(entries, e) ==
    CHOOSE i \in 1..Len(entries) :
        /\ FoldedEntry(entries[i]) = e
        /\ \A j \in 1..(i - 1) : FoldedEntry(entries[j]) # e

\* C29: after a successful collapse() from expand_level n > 0 element 0 of
\* current_holder is unchanged, every other entry that lay deeper than n - 1
\* below current_directory has been replaced by the entry of its parent
\* directory, the entries at depth <= n - 1 are kept, each row stands where
\* the first entry folding into it stood, and no two entries after element 0
\* have the same path.
C29_CollapseFoldsToParents ==
    (NormalSearch /\ expand_level > 0 /\ collapse(St).res = "Ok") =>
        LET s == collapse(St)
            old == Tail(current_holder)
            new == Tail(s.current_holder)
        IN  /\ s.current_holder[1] = current_holder[1]
            /\ Range(new) = {FoldedEntry(fh) : fh \in Range(old)}
            /\ \A i, j \in 1..Len(new) : i # j => to_path(new[i]) # to_path(new[j])
            /\ \A k, l \in 1..Len(new) :
                   k < l => FirstFoldedAt(old, new[k]) < FirstFoldedAt(old, new[l])

\* C29 witness: two children of the same subdirectory were shown at level 1
\* and the collapse has folded them into the one row of that subdirectory.
C29_Witness ==
    /\ probe.fn = "FolderHolder::collapse"
    /\ probe.before # <<>>
    /\ probe.res = "Ok"
    /\ expand_level = 0
    /\ LET old == probe.before[1].current_holder
       IN  /\ probe.before[1].expand_level = 1
           /\ \E i, j \in 2..Len(old) :
                  /\ i # j
                  /\ old[i].parent = PathAB
                  /\ old[j].parent = PathAB
           /\ Len(current_holder) < Len(old)
           /\ \E k \in 2..Len(current_holder) :
                  to_path(current_holder[k]) = PathAB

\* What C30 says of one state.
C30_WrapNeverDividesByZero_Here ==
    ~exit =>
        /\ submit(St).res # "DivideByZero"
        /\ to_parent(St).res # "DivideByZero"
        /\ submit_for_history(St).res # "DivideByZero"
        /\ \A gone \in DeleteOutcomes(St) : delete(St, gone).res # "DivideByZero"
        /\ draw_folder_view(St) # "DivideByZero"
        /\ selected_path_holder = <<>> =>
               /\ submit(St) = St
               /\ \A gone \in DeleteOutcomes(St) : delete(St, gone) = St
        /\ drawn_rows(St) = <<>> => draw_folder_view(St) = "Ok"

\* C30: the highlight-index wrap is never evaluated with a length of 0. In
\* every reachable state of the main loop (before it has ended) submit (also when to_parent or the history Enter
\* calls it), delete and draw_folder_view do not end in a remainder by zero,
\* because each returns early, changing nothing, when the list it indexes is
\* empty: selected_path_holder for submit and delete, the rows that can be
\* drawn for draw_folder_view.
C30_WrapNeverDividesByZero == []C30_WrapNeverDividesByZero_Here

\* Enter was pressed on a filter that matches nothing: the typed text is
\* cleared, the filter and the empty list stay, and the program runs on.
C30_Witness ==
    /\ Running
    /\ selected_path_holder = <<>>
    /\ input # <<>>
    /\ app_input = <<>>
    /\ EditSearch

\* The lines of a text: the pieces between newlines, where a final newline
\* ends the last line and does not start another one.
RECURSIVE LinesFrom(_, _)
LinesFrom(bytes, line) ==
    IF bytes = <<>> THEN (IF line = <<>> THEN <<>> ELSE <<line>>)
    ELSE IF Head(bytes) = Newline THEN <<line>> \o LinesFrom(Tail(bytes), <<>>)
    ELSE LinesFrom(Tail(bytes), Append(line, Head(bytes)))

Lines(text) == LinesFrom(text, <<>>)

RECURSIVE LongestLine(_)
LongestLine(lines) ==
    IF lines = <<>> THEN 0 ELSE Max(Len(Head(lines)), LongestLine(Tail(lines)))

\* C32: for every text the computed (n_rows, max_line_length) are the number
\* of lines of the text and the length of its longest line; a text that ends
\* in a newline has no extra line.
C32_DimensionsAreLineCountAndLongestLine ==
    (probe.fn = "get_string_dimensions" /\ probe.out # <<>>) =>
        probe.out[1] = <<Len(Lines(probe.text)), LongestLine(Lines(probe.text))>>

\* C33: the main loop stops only on Ctrl+Z or on a Terminal error: exit is
\* set only when the key read is Ctrl+Z, which sets it in every mode without
\* any handler changing the program's state, or when reading the event has
\* failed with a Terminal error; any other error a handler returns is written
\* to log_message and the loop goes on with exit still false.
C33_LoopStopsOnlyOnCtrlZ ==
    [][/\ (~exit /\ exit') =>
              \/ probe'.key = "Ctrl+Z"
              \/ log_message' = "Terminal" /\ probe' = probe
       /\ (Running /\ KeyCtrlZ) => (exit' /\ St' = St)
       /\ (~exit /\ log_message' # log_message /\ log_message' # "Terminal") =>
              (~exit' /\ log_message' \in {"Path", "Parse", "State", "Cache"})
       /\ (~exit /\ log_message' = "Terminal") => exit']_vars

\* C34: between key events a file is open (file_opened and file_text_info
\* are Some) exactly when the view mode is FileView, so the view that is
\* drawn is the one of the mode whose handler gets the next key.
C34_FileOpenIffFileView ==
    Running =>
        /\ (file_opened # NoPath) <=> (view_mode = "FileView")
        /\ (file_text_info = "Some") <=> (view_mode = "FileView")

\* C35: in every reachable state every entry of current_holder after element
\* 0 lies below current_directory, at most expand_level levels deep (the
\* separators of its path relative to current_directory).
C35_EntriesWithinExpandLevel ==
    Running =>
        \A i \in 2..Len(current_holder) :
            /\ relative_to_ok(current_holder[i], current_directory)
            /\ Depth(St, current_holder[i]) <= expand_level

\* C36: delete (Ctrl+D) removes only the highlighted entry's own file or
\* subtree, which lies below current_directory: whatever the highlighted
\* entry is, also the ".." shortcut, no node of the disk other than those
\* strictly below current_directory changes, so current_directory and its
\* ancestors stay.  (Stated for a list that shows the filtered listing of
\* current_directory.)
C36_DeleteStaysBelowCurrentDirectory ==
    (/\ NormalSearch
     /\ selected_path_holder # <<>>
     /\ selected_path_holder = BrowseSelection(St)
     /\ Target # NoPath) =>
        \A gone \in DeleteOutcomes(St) :
            LET s == delete(St, gone)
            IN  \A n \in Nodes :
                    s.disk[n] # disk[n] =>
                        /\ IsPrefix(current_directory, n)
                        /\ n # current_directory
                        /\ IsPrefix(Target, n)

\* C37: refresh() on a current directory that cannot be read returns a Parse
\* error and changes nothing; on one that can be read it replaces the cache
\* snapshot of current_directory, current_holder and selected_path_holder by
\* the fresh listing, and returns Ok when the key of current_directory was
\* in the cache before the call and a Cache error exactly when it was not
\* (the key has been inserted and the lists rebuilt all the same).
C37_RefreshOutcomes ==
    (probe.fn = "FolderHolder::refresh" /\ probe.before # <<>>) =>
        LET before == probe.before[1]
            listing == FileGroupHolder_new(disk, unreadable, current_directory, TRUE)
        IN  IF ~CanRead(disk, unreadable, before.current_directory)
            THEN /\ probe.res = "Parse"
                 /\ St = before
            ELSE /\ probe.res = (IF CacheHas(before.cache_holder, before.current_directory)
                                 THEN "Ok" ELSE "Cache")
                 /\ probe.res = "Cache" <=>
                        ~CacheHas(before.cache_holder, before.current_directory)
                 /\ current_holder = listing
                 /\ selected_path_holder = BrowseSelection(St)
                 /\ CacheHas(cache_holder, current_directory)
                 /\ lru_peek(cache_holder, current_directory) = listing
                 /\ current_directory = before.current_directory
                 /\ input = before.input
                 /\ expand_level = before.expand_level

\* refresh has returned a Cache error: the key was absent, and the listing
\* that was put in its place differs from the one shown before.
C37_Witness ==
    /\ probe.fn = "FolderHolder::refresh"
    /\ probe.before # <<>>
    /\ probe.res = "Cache"
    /\ current_holder # probe.before[1].current_holder
    /\ CacheHas(cache_holder, current_directory)

\* The row draw_folder_view shows as highlighted, and the entry that submit
\* and delete activate.
DrawnHighlight ==
    drawn_rows(St)[get_highlight_index(St, Len(drawn_rows(St))) + 1]

SubmittedEntry ==
    selected_path_holder[get_highlight_index(St, Len(selected_path_holder)) + 1]

\* C38: whenever the folder list is drawn with at least one row, the row
\* drawn as highlighted is the entry that submit (and delete) would activate
\* in the same state, also in history mode with stale history entries.
C38_DrawnHighlightIsSubmitted ==
    (Running /\ file_opened = NoPath /\ ~is_empty(drawn_rows(St))) =>
        DrawnHighlight = SubmittedEntry

\* One of the entries shown after element 0 is a directory that cannot be
\* read.
UnreadableVisibleSubdirectory ==
    \E i \in 2..Len(current_holder) :
        LET q == to_path_canonicalize(disk, current_holder[i])
        IN  /\ q # NoPath
            /\ disk[q] = "dir"
            /\ ~CanRead(disk, unreadable, q)

\* C39: when expand() ('e' in (Normal, Search)) fails because one of the
\* visible subdirectories cannot be read, the Parse error is reported and the
\* engine is as before the call: current_holder, selected_path_holder,
\* expand_level, the filter, current_directory and the cache.
C39_FailedExpandChangesNothing ==
    [][(NormalSearch /\ UnreadableVisibleSubdirectory /\ KeyExpand) =>
           (EngineUnchanged /\ log_message' = "Parse" /\ ~panicked')]_vars

\* The failed expand has happened: /a still shows its unreadable
\* subdirectory, the highlight is on "..", and the Parse error is in the
\* status line.
C39_Witness ==
    /\ NormalSearch
    /\ UnreadableVisibleSubdirectory
    /\ current_directory = PathA
    /\ raw_highlight_index = 0
    /\ expand_level = 0
    /\ log_message = "Parse"

====
